---- MODULE Spec2Model ----
(***************************************************************************)
(* Model of the resume tailoring repository: the document <-> structured   *)
(* text codec (resume_txt_converter.py), the section content rewriter      *)
(* (tailor_resume_strict.py), anchor discovery / section replacement and   *)
(* the per-job workflow (automated_resume_tailor.py).                      *)
(*                                                                         *)
(* Text is modelled as a sequence of tokens.  A token is a word, a         *)
(* punctuation glyph or one whitespace character; the substring, prefix    *)
(* and case tests of the code are computed from per-token tables.          *)
(* A paragraph is a record of its paragraph properties (pPr), its          *)
(* numbering property (numPr) and its runs, each run a record of its run   *)
(* properties (rPr) and its text.                                          *)
(***************************************************************************)
EXTENDS Integers, Sequences, FiniteSets, TLC

VARIABLES
    cpc, csrc, ctmpl, ctxt, cdoc, cok, csec,            \* codec: encode / decode
    rpc, rheap, rdoc, ranch, rin, rnew, rraised, \* section rewriting on a live document
    apc, adoc, aidx, anchors,                     \* anchor discovery scan
    ppc, porig, pstr, ppar,                       \* clone + replace text of one paragraph
    jpc, jin, jfiles, jtxt, jdoc, jret, jwrites, jfailed, \* generate_resume workflow and the file system
    lpc, ldoc, lidx, lhdr, lbody, lsecs,          \* section locator scan
    tin, tself, tw, tret, tcalled, tn,            \* calls on one ResumeTailor object
    bpc, bin, bself, bi, bw, bgen, blink, bout,   \* batch loops over job records
    bjobs, bcalls,                                \* job_records and the generate_resume calls
    spc, sin, sout, sagain                        \* line normalization of the rewriter

codecVars == <<cpc, csrc, ctmpl, ctxt, cdoc, cok, csec>>
rewriteVars == <<rpc, rheap, rdoc, ranch, rin, rnew, rraised>>
anchorVars == <<apc, adoc, aidx, anchors>>
paraVars == <<ppc, porig, pstr, ppar>>
jobVars == <<jpc, jin, jfiles, jtxt, jdoc, jret, jwrites, jfailed>>
locVars == <<lpc, ldoc, lidx, lhdr, lbody, lsecs>>
tailorVars == <<tin, tself, tw, tret, tcalled, tn>>
batchVars == <<bpc, bin, bself, bi, bw, bgen, blink, bout, bjobs, bcalls>>
sanVars == <<spc, sin, sout, sagain>>
vars == <<codecVars, rewriteVars, anchorVars, paraVars, jobVars, locVars, tailorVars, batchVars, sanVars>>

----------------------------------------------------------------------------
(* Bounds of the model *)

MaxTextLines == 3
MaxTemplateParas == 3
MaxAnchorDoc == 3
MaxRuns == 2
MaxDocParas == 3
MaxRLines == 2
MaxCalls == 4
MaxJobs == 2
MaxLineToks == 4
MaxSanLines == 2

----------------------------------------------------------------------------
(* Generic sequence helpers *)

Range(s) == {s[i] : i \in 1..Len(s)}

RECURSIVE Flatten(_)
Flatten(ss) == IF ss = <<>> THEN <<>> ELSE Head(ss) \o Flatten(Tail(ss))

SeqsUpTo(S, n) == UNION {[1..k -> S] : k \in 0..n}

None == "None"

----------------------------------------------------------------------------
(* Token tables: what a token contains, how it starts and ends *)

IsSpace(t) == t \in {" ", "\t"}

\* The needles (markers, keywords, glyphs) that occur in token t as a substring.
Subs(t) ==
    CASE t = "===HEADER===" -> {"===HEADER==="}
      [] t = "===EDUCATION===" -> {"===EDUCATION===", "EDUCATION"}
      [] t = "===PROJECTS===" -> {"===PROJECTS===", "PROJECTS"}
      [] t = "===PROFESSIONAL EXPERIENCE===" ->
            {"===PROFESSIONAL EXPERIENCE===", "PROFESSIONAL EXPERIENCE", "EXPERIENCE"}
      [] t = "===EXPERIENCE===" -> {"===EXPERIENCE===", "EXPERIENCE"}
      [] t = "===TECHNICAL SKILLS===" ->
            {"===TECHNICAL SKILLS===", "TECHNICAL SKILLS", "SKILLS", "SKILL", "TECHNICAL"}
      [] t = "===SKILLS===" -> {"===SKILLS===", "SKILLS", "SKILL"}
      [] t = "===SUMMARY===" -> {"SUMMARY"}
      [] t = "EDUCATION" -> {"EDUCATION"}
      [] t = "PROJECTS" -> {"PROJECTS"}
      [] t = "PROFESSIONAL EXPERIENCE" -> {"PROFESSIONAL EXPERIENCE", "EXPERIENCE"}
      [] t = "TECHNICAL SKILLS" -> {"TECHNICAL SKILLS", "SKILLS", "SKILL", "TECHNICAL"}
      [] t = "SKILLS" -> {"SKILLS", "SKILL"}
      [] t = "SUMMARY" -> {"SUMMARY"}
      [] t = "**Instructions:**" -> {"**Instructions:**", "Instructions:", ":", "**", "*"}
      [] t = "Instructions:" -> {"Instructions:", ":"}
      [] t = "FORMATTING" -> {"FORMATTING"}
      [] t = "jane@x.com" -> {"@", ".com"}
      [] t = "JANE@X.COM" -> {"@"}
      [] t = "832-775-2886" -> {"PHONE", "832"}
      [] t = "phone:" -> {"phone", ":"}
      [] t = "Phone:" -> {":"}
      [] t = "|" -> {"|"}
      [] t = ":" -> {":"}
      [] t = "**" -> {"**", "*"}
      [] t = "*" -> {"*"}
      [] t = "BULLET" -> {"BULLET"}   \* the bullet glyph U+2022
      [] OTHER -> {}

\* str.upper() of one token.
Upper(t) ==
    CASE t = "skills" -> "SKILLS"
      [] t = "Jane" -> "JANE"
      [] t = "jane" -> "JANE"
      [] t = "Doe" -> "DOE"
      [] t = "did" -> "DID"
      [] t = "jane@x.com" -> "JANE@X.COM"
      [] t = "Instructions:" -> "INSTRUCTIONS:"
      [] t = "**Instructions:**" -> "**INSTRUCTIONS:**"
      [] OTHER -> t

\* str.lower() of one token.
Lower(t) ==
    CASE t = "SKILLS" -> "skills"
      [] t = "Phone:" -> "phone:"
      [] t = "JANE@X.COM" -> "jane@x.com"
      [] t = "ML" -> "ml"
      [] t = "Engineer" -> "engineer"
      [] t = "Acme" -> "acme"
      [] t = "Inc" -> "inc"
      [] t = "Jane" -> "jane"
      [] t = "JANE" -> "jane"
      [] t = "Doe" -> "doe"
      [] t = "DOE" -> "doe"
      [] OTHER -> t

\* word[0].upper() + word[1:].lower() of a one-token word.
Capitalize(t) ==
    CASE Lower(t) = "jane" -> "Jane"
      [] Lower(t) = "doe" -> "Doe"
      [] Lower(t) = "skills" -> "Skills"
      [] OTHER -> t

\* The prefixes (among those the code tests with startswith) of token t.
Prefixes(t) ==
    CASE "===HEADER===" \in Subs(t) \/ "===EDUCATION===" \in Subs(t)
         \/ "===PROJECTS===" \in Subs(t) \/ "===PROFESSIONAL EXPERIENCE===" \in Subs(t)
         \/ "===EXPERIENCE===" \in Subs(t) \/ "===TECHNICAL SKILLS===" \in Subs(t)
         \/ "===SKILLS===" \in Subs(t) \/ t = "===SUMMARY===" -> {"==="}
      [] t = "-" -> {"-"}
      [] t = "**" -> {"**", "*"}
      [] t = "**Instructions:**" -> {"**", "*"}
      [] t = "*" -> {"*"}
      [] t = "1." -> {"1."}
      [] t = "BULLET" -> {"BULLET"}   \* the bullet glyph U+2022
      [] OTHER -> {}

\* Whether token t ends with one of '.', '?', '!'.
EndsSentence(t) == t \in {".", "?", "!", "1."}

----------------------------------------------------------------------------
(* Line (token sequence) operations *)

RECURSIVE LStrip(_)
LStrip(l) == IF l # <<>> /\ IsSpace(Head(l)) THEN LStrip(Tail(l)) ELSE l

RECURSIVE RStrip(_)
RStrip(l) ==
    IF l # <<>> /\ IsSpace(l[Len(l)]) THEN RStrip(SubSeq(l, 1, Len(l) - 1)) ELSE l

\* str.strip()
Strip(l) == RStrip(LStrip(l))

\* needle in line
Has(needle, l) == \E i \in 1..Len(l) : needle \in Subs(l[i])

\* needle in line.upper()
HasUpper(needle, l) == \E i \in 1..Len(l) : needle \in Subs(Upper(l[i]))

\* line.startswith(prefix)
StartsWith(l, prefix) == l # <<>> /\ prefix \in Prefixes(l[1])

\* line.upper()
UpperLine(l) == [i \in 1..Len(l) |-> Upper(l[i])]

----------------------------------------------------------------------------
(* Paragraphs, runs, documents *)

RPr(size, bold, underline) ==
    [font |-> "Times New Roman", size |-> size, bold |-> bold, underline |-> underline]

MkRun(rPr, text) == [rPr |-> rPr, text |-> text]

MkPara(align, space, numPr, runs) ==
    [pPr |-> [align |-> align, space |-> space], numPr |-> numPr, runs |-> runs]

\* paragraph.text: the concatenation of the texts of the paragraph's runs
ParaText(p) == Flatten([i \in 1..Len(p.runs) |-> p.runs[i].text])

\* Formatting signature (text ignored): paragraph properties, numbering
\* properties, and the run properties of each run in run order.
paragraph_xml_signature(p) ==
    [pPr |-> p.pPr, numPr |-> p.numPr, rPrs |-> [i \in 1..Len(p.runs) |-> p.runs[i].rPr]]

----------------------------------------------------------------------------
(* resume_txt_converter.py: ResumeTextConverter *)

SectionKeys == {"HEADER", "EDUCATION", "PROJECTS", "EXPERIENCE", "SKILLS"}

section_markers ==
    [k \in SectionKeys |->
        CASE k = "HEADER" -> "===HEADER==="
          [] k = "EDUCATION" -> "===EDUCATION==="
          [] k = "PROJECTS" -> "===PROJECTS==="
          [] k = "EXPERIENCE" -> "===PROFESSIONAL EXPERIENCE==="
          [] k = "SKILLS" -> "===TECHNICAL SKILLS==="]

format_specs ==
    [name_size |-> 16, contact_size |-> 11, section_header_size |-> 13,
     job_title_size |-> 12, body_size |-> 11, no_spacing |-> "0"]

section_keywords ==
    {"EDUCATION", "PROFESSIONAL EXPERIENCE", "EXPERIENCE", "TECHNICAL SKILLS",
     "SKILLS", "CORE SKILLS", "SUMMARY", "PROJECTS"}

_is_section_header(text) == \E kw \in section_keywords : HasUpper(kw, Strip(text))

_map_to_section_key(header_text) ==
    IF HasUpper("EDUCATION", header_text) THEN "EDUCATION"
    ELSE IF HasUpper("PROJECTS", header_text) THEN "PROJECTS"
    ELSE IF HasUpper("EXPERIENCE", header_text) THEN "EXPERIENCE"
    ELSE IF HasUpper("SKILL", header_text) \/ HasUpper("TECHNICAL", header_text)
         THEN "SKILLS"
    ELSE None

\* An element of structured_lines: nl says that the element starts with "\n".
Entry(nl, line) == [nl |-> nl, line |-> line]

\* '\n'.join(structured_lines), seen as the list of its lines
JoinLines(entries) ==
    Flatten([i \in 1..Len(entries) |->
        IF entries[i].nl THEN << <<>>, entries[i].line >> ELSE << entries[i].line >>])

AnyMarkerIn(entries) ==
    \E i \in 1..Len(entries) : \E k \in SectionKeys : Has(section_markers[k], entries[i].line)

\* Variant: a blank paragraph is emitted as an empty line.
EncodeStep_keepblank(st, para) ==
    LET text == Strip(ParaText(para)) IN
    IF text = <<>> THEN [st EXCEPT !.lines = st.lines \o << Entry(FALSE, <<>>) >>]
    ELSE IF _is_section_header(text) /\ _map_to_section_key(text) # None
    THEN [lines |-> st.lines \o << Entry(TRUE, <<section_markers[_map_to_section_key(text)]>>),
                                   Entry(FALSE, text) >>,
          cur |-> _map_to_section_key(text)]
    ELSE IF ~_is_section_header(text) /\ st.cur = None /\ ~AnyMarkerIn(st.lines)
    THEN [lines |-> << Entry(FALSE, <<section_markers["HEADER"]>>) >> \o st.lines
                    \o << Entry(FALSE, text) >>,
          cur |-> "HEADER"]
    ELSE [st EXCEPT !.lines = st.lines \o << Entry(FALSE, text) >>]

\* One iteration of the loop over doc.paragraphs (lines 54-76).
EncodeStep(st, para) ==
    LET text == Strip(ParaText(para)) IN
    IF text = <<>> THEN st
    ELSE IF _is_section_header(text) THEN
        LET section_key == _map_to_section_key(text) IN
        IF section_key # None
        THEN [lines |-> st.lines \o << Entry(TRUE, <<section_markers[section_key]>>),
                                      Entry(FALSE, text) >>,
              cur |-> section_key]
        ELSE [st EXCEPT !.lines = st.lines \o << Entry(FALSE, text) >>]
    ELSE
        IF st.cur = None /\ ~AnyMarkerIn(st.lines)
        THEN [lines |-> << Entry(FALSE, <<section_markers["HEADER"]>>) >> \o st.lines
                        \o << Entry(FALSE, text) >>,
              cur |-> "HEADER"]
        ELSE [st EXCEPT !.lines = st.lines \o << Entry(FALSE, text) >>]

RECURSIVE EncodeLoop(_, _)
EncodeLoop(st, paras) ==
    IF paras = <<>> THEN st ELSE EncodeLoop(EncodeStep(st, Head(paras)), Tail(paras))

\* The text returned for a loaded document, as the list of its lines
\* (the empty list is the empty string).
docx_to_structured_txt(doc) ==
    JoinLines(EncodeLoop([lines |-> <<>>, cur |-> None], doc).lines)

\* structured_txt.split('\n')
SplitLines(txt) == IF txt = <<>> THEN << <<>> >> ELSE txt

clean_keywords ==
    {"**FORMATTING SPECIFICATIONS:**", "**CONTENT REQUIREMENTS:**",
     "**WHAT NEVER CHANGES:**", "**Instructions:**", "**Output Format:**"}

CleanStep(st, rawline) ==
    LET line == Strip(rawline) IN
    IF \E kw \in clean_keywords : Has(kw, line)
    THEN [st EXCEPT !.skip = TRUE]
    ELSE IF st.skip /\
            ~(StartsWith(line, "===")
              \/ (line # <<>> /\ ~StartsWith(line, "-") /\ ~StartsWith(line, "**")
                  /\ ~StartsWith(line, "*") /\ ~StartsWith(line, "1.")
                  /\ ~StartsWith(line, "2.") /\ ~StartsWith(line, "3.")
                  /\ ~StartsWith(line, "4.") /\ ~StartsWith(line, "5.")))
    THEN st
    ELSE [out |-> st.out \o <<line>>, skip |-> FALSE]

RECURSIVE CleanLoop(_, _)
CleanLoop(st, lines) ==
    IF lines = <<>> THEN st ELSE CleanLoop(CleanStep(st, Head(lines)), Tail(lines))

_clean_structured_txt(txt) == CleanLoop([out |-> <<>>, skip |-> FALSE], SplitLines(txt)).out

\* dict helpers
Put(d, k, v) == [x \in (DOMAIN d) \cup {k} |-> IF x = k THEN v ELSE d[x]]
Get(d, k) == IF k \in DOMAIN d THEN d[k] ELSE <<>>

\* The section a marker line starts (the if / elif chain of lines 182-196).
MarkerKey(line) ==
    IF Has("===HEADER===", line) THEN "HEADER"
    ELSE IF Has("===EDUCATION===", line) THEN "EDUCATION"
    ELSE IF Has("===PROJECTS===", line) THEN "PROJECTS"
    ELSE IF Has("===PROFESSIONAL EXPERIENCE===", line) \/ Has("===EXPERIENCE===", line)
         THEN "EXPERIENCE"
    ELSE IF Has("===TECHNICAL SKILLS===", line) \/ Has("===SKILLS===", line)
         THEN "SKILLS"
    ELSE None

\* Returns the sections dict after the save; the caller starts new_section.
_save_and_start_section(sections, current_section, current_lines) ==
    IF current_section # None /\ current_lines # <<>>
    THEN Put(sections, current_section, current_lines)
    ELSE sections

ParseStep(st, rawline) ==
    LET line == Strip(rawline) IN
    IF line = <<>> THEN st
    ELSE IF MarkerKey(line) # None
    THEN [sections |-> _save_and_start_section(st.sections, st.cur, st.lines),
          cur |-> MarkerKey(line), lines |-> <<>>]
    ELSE IF st.cur # None
    THEN [st EXCEPT !.lines = st.lines \o <<line>>]
    ELSE [st EXCEPT !.sections = Put(st.sections, "HEADER", Get(st.sections, "HEADER") \o <<line>>)]

RECURSIVE ParseLoop(_, _)
ParseLoop(st, lines) ==
    IF lines = <<>> THEN st ELSE ParseLoop(ParseStep(st, Head(lines)), Tail(lines))

_parse_ai_structured_txt(txt) ==
    LET st == ParseLoop([sections |-> <<>>, cur |-> None, lines |-> <<>>], SplitLines(txt))
    IN IF st.cur # None /\ st.lines # <<>>
       THEN Put(st.sections, st.cur, st.lines)
       ELSE st.sections

----------------------------------------------------------------------------
(* Section builders of structured_txt_to_docx; each returns the paragraphs it
   appends to the new document with doc.add_paragraph() *)

\* line.split(): the whitespace-separated words of a line, each a token sequence
RECURSIVE SplitWords(_, _)
SplitWords(l, word) ==
    IF l = <<>> THEN (IF word = <<>> THEN <<>> ELSE <<word>>)
    ELSE IF IsSpace(Head(l))
         THEN (IF word = <<>> THEN <<>> ELSE <<word>>) \o SplitWords(Tail(l), <<>>)
         ELSE SplitWords(Tail(l), word \o <<Head(l)>>)

NotNameWord(w) ==
    \E needle \in {"@", "|", "http", ".com", "832", "713"} : Has(needle, w)

RECURSIVE NameWords(_)
NameWords(words) ==
    IF words = <<>> \/ NotNameWord(Head(words)) THEN <<>>
    ELSE <<Head(words)>> \o NameWords(Tail(words))

CapitalizeWord(w) ==
    [i \in 1..Len(w) |-> IF i = 1 THEN Capitalize(w[i]) ELSE Lower(w[i])]

_format_name_correctly(name_line) ==
    LET name_words == NameWords(SplitWords(Strip(name_line), <<>>)) IN
    IF Len(name_words) >= 2
    THEN CapitalizeWord(name_words[1]) \o <<" ">> \o CapitalizeWord(name_words[Len(name_words)])
    ELSE Strip(name_line)

_is_contact_info(line) ==
    \/ Has("@", line)
    \/ Has("linkedin", line)
    \/ Has("http", line)
    \/ Has("PHONE", line)
    \/ Has("|", line)

NoSpacing == format_specs.no_spacing

HeaderPara(i, line) ==
    IF i = 1
    THEN MkPara("CENTER", NoSpacing, "none",
                <<MkRun(RPr(format_specs.name_size, "true", "unset"),
                        _format_name_correctly(line))>>)
    ELSE IF _is_contact_info(line)
    THEN MkPara("CENTER", NoSpacing, "none",
                <<MkRun(RPr(format_specs.contact_size, "false", "unset"), Strip(line))>>)
    ELSE MkPara("CENTER", "unset", "none", <<>>)   \* added, then skipped by continue

\* enumerate() counts the skipped blank lines too
_add_header_section(header_lines) ==
    LET idx == {i \in 1..Len(header_lines) : Strip(header_lines[i]) # <<>>}
        Nth(n) == CHOOSE i \in idx : Cardinality({j \in idx : j < i}) = n - 1
    IN [n \in 1..Cardinality(idx) |-> HeaderPara(Nth(n), header_lines[Nth(n)])]

SectionHeaderPara(title) ==
    MkPara("LEFT", NoSpacing, "none",
           <<MkRun(RPr(format_specs.section_header_size, "true", "true"), <<title>>)>>)

BlankPara == MkPara("unset", NoSpacing, "none", <<>>)

NonBlank(lines) == SelectSeq(lines, LAMBDA l : Strip(l) # <<>>)

EducationEntry(line) ==
    MkPara("LEFT", NoSpacing, "none",
           <<MkRun(RPr(format_specs.job_title_size, "false", "unset"), Strip(line))>>)

\* Variant: the first line of the bucket is taken for the section title, as
\* _replace_sections_preserve_formatting does with new_lines[0].
_add_education_section_skipfirst(education_lines) ==
    IF education_lines = <<>> THEN <<>>
    ELSE <<SectionHeaderPara("EDUCATION")>>
         \o [i \in 1..Len(Tail(NonBlank(education_lines))) |->
                EducationEntry(Tail(NonBlank(education_lines))[i])]

_add_education_section(education_lines) ==
    IF education_lines = <<>> THEN <<>>
    ELSE <<SectionHeaderPara("EDUCATION")>>
         \o [i \in 1..Len(NonBlank(education_lines)) |->
                EducationEntry(NonBlank(education_lines)[i])]

\* A project / job line: an entry line (contains '|') is bold, any other line
\* is rendered as a bullet with a closing period.
EntryOrBullet(line) ==
    IF Has("|", line)
    THEN MkPara("LEFT", NoSpacing, "none",
                <<MkRun(RPr(format_specs.job_title_size, "true", "unset"), Strip(line))>>)
    ELSE LET c0 == Strip(line)
             c1 == IF StartsWith(c0, "BULLET") THEN c0 ELSE <<"BULLET", " ">> \o c0
             c2 == IF EndsSentence(c1[Len(c1)]) THEN c1 ELSE c1 \o <<".">>
         IN MkPara("LEFT", NoSpacing, "none",
                   <<MkRun(RPr(format_specs.body_size, "false", "unset"), c2)>>)

_add_projects_section(projects_lines) ==
    IF projects_lines = <<>> THEN <<>>
    ELSE <<BlankPara, SectionHeaderPara("PROJECTS")>>
         \o [i \in 1..Len(NonBlank(projects_lines)) |->
                EntryOrBullet(NonBlank(projects_lines)[i])]

_add_experience_section(experience_lines) ==
    IF experience_lines = <<>> THEN <<>>
    ELSE <<BlankPara, SectionHeaderPara("PROFESSIONAL EXPERIENCE")>>
         \o [i \in 1..Len(NonBlank(experience_lines)) |->
                EntryOrBullet(NonBlank(experience_lines)[i])]

skills_skip_keywords ==
    {"FORMATTING", "CONTENT REQUIREMENTS", "WHAT NEVER CHANGES", "Instructions:",
     "Action-Oriented:", "STAR Flow:", "Quantifiable Results:", "Concise & Specific:",
     "ATS Alignment:", "Output Format:"}

IsInstructionLine(line) == \E kw \in skills_skip_keywords : Has(kw, line)

\* s.replace('**', '').replace('*', '').strip()
Unstar(l) == Strip(SelectSeq(l, LAMBDA t : t \notin {"**", "*"}))

FirstColon(line) == CHOOSE i \in 1..Len(line) : line[i] = ":" /\ \A j \in 1..(i-1) : line[j] # ":"

SkillsEntry(line) ==
    IF Has(":", line)
    THEN LET c == FirstColon(line)
             category == Unstar(Strip(SubSeq(line, 1, c - 1)))
             skills == Unstar(Strip(SubSeq(line, c + 1, Len(line))))
             run1 == MkRun(RPr(format_specs.body_size, "true", "unset"), category \o <<":">>)
             run2 == MkRun(RPr(format_specs.body_size, "false", "unset"), <<" ">> \o skills)
         IN MkPara("LEFT", NoSpacing, "none",
                   IF skills # <<>> THEN <<run1, run2>> ELSE <<run1>>)
    ELSE MkPara("LEFT", NoSpacing, "none",
                <<MkRun(RPr(format_specs.body_size, "false", "unset"), Unstar(line))>>)

SkillsKept(skills_lines) ==
    SelectSeq(skills_lines, LAMBDA l : Strip(l) # <<>> /\ ~IsInstructionLine(l))

_add_skills_section(skills_lines) ==
    IF skills_lines = <<>> THEN <<>>
    ELSE <<BlankPara, SectionHeaderPara("TECHNICAL SKILLS")>>
         \o [i \in 1..Len(SkillsKept(skills_lines)) |-> SkillsEntry(SkillsKept(skills_lines)[i])]

\* The document built by structured_txt_to_docx (lines 118-132); the master
\* document path is a parameter the function body never uses.
BuildDocument(structured_txt) ==
    LET sections == _parse_ai_structured_txt(_clean_structured_txt(structured_txt)) IN
    _add_header_section(Get(sections, "HEADER"))
    \o _add_education_section(Get(sections, "EDUCATION"))
    \o _add_projects_section(Get(sections, "PROJECTS"))
    \o _add_experience_section(Get(sections, "EXPERIENCE"))
    \o _add_skills_section(Get(sections, "SKILLS"))

----------------------------------------------------------------------------
(* Inputs of the codec: template documents and structured texts *)

TemplateParaVocab ==
    { MkPara("CENTER", "0", "none", <<MkRun(RPr(16, "true", "unset"), <<"Jane", " ", "Doe">>)>>),
      MkPara("CENTER", "0", "none", <<MkRun(RPr(11, "false", "unset"), <<"jane@x.com">>)>>),
      SectionHeaderPara("EDUCATION"),
      SectionHeaderPara("TECHNICAL SKILLS"),
      SectionHeaderPara("SUMMARY"),
      MkPara("LEFT", "0", "none", <<MkRun(RPr(12, "false", "unset"), <<"Univ", " ", "|", " ", "2020">>)>>),
      MkPara("LEFT", "6", "num1", <<MkRun(RPr(11, "false", "unset"), <<"my", " ", "skills">>)>>),
      MkPara("LEFT", "0", "none", <<MkRun(RPr(11, "false", "unset"), <<" ">>)>>),
      MkPara("LEFT", "0", "none", <<MkRun(RPr(11, "false", "unset"), <<"===EDUCATION===">>)>>),
      MkPara("unset", "0", "none", <<>>) }

Templates == SeqsUpTo(TemplateParaVocab, MaxTemplateParas)

TextLineVocab ==
    { <<"===HEADER===">>, <<"===EDUCATION===">>, <<"===PROJECTS===">>,
      <<"===PROFESSIONAL EXPERIENCE===">>, <<"===TECHNICAL SKILLS===">>, <<"===SUMMARY===">>,
      <<"Jane", " ", "Doe">>, <<"Univ", " ", "|", " ", "2020">>,
      <<"FORMATTING", " ", "x">>, <<"**Instructions:**">>, <<>> }

\* Lines for the longer texts, in which a marker can occur twice with content.
CoreLineVocab ==
    { <<"===HEADER===">>, <<"===EDUCATION===">>,
      <<"Jane", " ", "Doe">>, <<"Univ", " ", "|", " ", "2020">> }

Texts ==
    SeqsUpTo(TextLineVocab, MaxTextLines) \cup [1..(MaxTextLines + 1) -> CoreLineVocab]

----------------------------------------------------------------------------
(* Codec specification: encode a template and decode the text, or decode a
   text received from the rewriting step *)

CodecIdle ==
    /\ cpc = "idle" /\ csrc = "idle" /\ ctmpl = <<>> /\ ctxt = <<>> /\ cdoc = <<>> /\ cok = FALSE
    /\ csec = <<>>

CodecInit ==
    /\ cdoc = <<>>
    /\ csec = <<>>
    /\ cok = FALSE
    /\ \/ cpc = "template" /\ csrc = "template" /\ ctmpl \in Templates /\ ctxt = <<>>
       \/ cpc = "text" /\ csrc = "text" /\ ctmpl = <<>> /\ ctxt \in Texts

\* docx_to_structured_txt on a template that loads
Encode ==
    /\ cpc = "template"
    /\ ctxt' = docx_to_structured_txt(ctmpl)
    /\ cpc' = "encoded"
    /\ UNCHANGED <<csrc, ctmpl, cdoc, cok, csec>>
    /\ UNCHANGED <<rewriteVars, anchorVars, paraVars, jobVars, locVars, tailorVars, batchVars, sanVars>>

\* structured_txt_to_docx: parse, build every section, return True
Decode ==
    /\ cpc \in {"encoded", "text"}
    /\ cdoc' = BuildDocument(ctxt)
    /\ cok' = TRUE
    /\ cpc' = "decoded"
    /\ UNCHANGED <<csrc, ctmpl, ctxt, csec>>
    /\ UNCHANGED <<rewriteVars, anchorVars, paraVars, jobVars, locVars, tailorVars, batchVars, sanVars>>

\* _parse_ai_structured_txt called on a text as it is
Parse ==
    /\ cpc \in {"encoded", "text"}
    /\ csec' = _parse_ai_structured_txt(ctxt)
    /\ cpc' = "parsed"
    /\ UNCHANGED <<csrc, ctmpl, ctxt, cdoc, cok>>
    /\ UNCHANGED <<rewriteVars, anchorVars, paraVars, jobVars, locVars, tailorVars, batchVars, sanVars>>

CodecNext == Encode \/ Decode \/ Parse

----------------------------------------------------------------------------
(* Parts of the state that a specification does not use stay idle *)

RewriteIdle ==
    /\ rpc = "idle" /\ rheap = <<>> /\ rdoc = <<>> /\ ranch = <<>> /\ rin = <<>>
    /\ rnew = <<>> /\ rraised = FALSE

AnchorIdle == apc = "idle" /\ adoc = <<>> /\ aidx = 0 /\ anchors = <<>>

ParaIdle == ppc = "idle" /\ porig = <<>> /\ pstr = <<>> /\ ppar = <<>>

JobIdle ==
    /\ jpc = "idle" /\ jin = <<>> /\ jfiles = <<>> /\ jtxt = <<>> /\ jdoc = <<>>
    /\ jret = "" /\ jwrites = {} /\ jfailed = "none"

LocIdle ==
    /\ lpc = "idle" /\ ldoc = <<>> /\ lidx = 0 /\ lhdr = 0 /\ lbody = <<>> /\ lsecs = <<>>

TailorIdle ==
    /\ tin = <<>> /\ tself = <<>> /\ tw = <<>> /\ tret = <<>> /\ tcalled = {} /\ tn = 0

SanIdle == spc = "idle" /\ sin = <<>> /\ sout = <<>> /\ sagain = <<>>

BatchIdle ==
    /\ bpc = "idle" /\ bin = <<>> /\ bself = <<>> /\ bi = 0 /\ bw = <<>> /\ bgen = "" /\ bout = <<>>
    /\ blink = "" /\ bjobs = <<>> /\ bcalls = {}

InitCodec == CodecInit /\ RewriteIdle /\ AnchorIdle /\ ParaIdle /\ JobIdle /\ LocIdle /\ TailorIdle /\ BatchIdle /\ SanIdle

SpecCodec == InitCodec /\ [][CodecNext]_vars

----------------------------------------------------------------------------
(* Reading the output document and the structured text, for the codec claims *)

BodySections == {"EDUCATION", "PROJECTS", "EXPERIENCE", "SKILLS"}

SectionTitle(k) ==
    CASE k = "EDUCATION" -> "EDUCATION"
      [] k = "PROJECTS" -> "PROJECTS"
      [] k = "EXPERIENCE" -> "PROFESSIONAL EXPERIENCE"
      [] k = "SKILLS" -> "TECHNICAL SKILLS"

\* Section header paragraphs of an output document are the only underlined ones.
IsOutHeader(p) == Len(p.runs) = 1 /\ p.runs[1].rPr.underline = "true"

HeaderAt(doc, k) ==
    {i \in 1..Len(doc) : IsOutHeader(doc[i]) /\ doc[i].runs[1].text = <<SectionTitle(k)>>}

HasSectionHeader(doc, k) == HeaderAt(doc, k) # {}

\* The blank paragraph a builder puts before the header of its section.
IsSeparator(p) == p.runs = <<>> /\ p.pPr.align = "unset"

\* Indices of the body paragraphs of section k: those after its header and
\* before the next section header, the separator of the next section excluded.
BodyIndices(doc, k) ==
    IF ~HasSectionHeader(doc, k) THEN {}
    ELSE LET h == CHOOSE i \in HeaderAt(doc, k) : TRUE
             later == {i \in (h+1)..Len(doc) : IsOutHeader(doc[i])}
             stop == IF later = {} THEN Len(doc) + 1
                     ELSE CHOOSE i \in later : \A j \in later : i <= j
         IN {i \in (h+1)..(stop-1) : ~IsSeparator(doc[i])}

BodyCount(doc, k) == Cardinality(BodyIndices(doc, k))

IsContentLine(line) == Strip(line) # <<>> /\ MarkerKey(Strip(line)) = None

\* Index of the nearest recognized marker line before line j (0 when none).
MarkerBefore(txt, j) ==
    LET ms == {i \in 1..(j-1) : MarkerKey(Strip(txt[i])) # None}
    IN IF ms = {} THEN 0 ELSE CHOOSE i \in ms : \A m \in ms : m <= i

\* Content lines whose marker is the marker line at index m.
LinesUnderMarkerAt(txt, m) ==
    {j \in 1..Len(txt) : IsContentLine(txt[j]) /\ MarkerBefore(txt, j) = m}

\* All non-empty content lines under a marker of section k.
ContentLinesUnder(txt, k) ==
    {j \in 1..Len(txt) : /\ IsContentLine(txt[j])
                         /\ MarkerBefore(txt, j) # 0
                         /\ MarkerKey(Strip(txt[MarkerBefore(txt, j)])) = k}

\* Content lines under the last marker occurrence of k that has content lines.
LinesUnderLastMarker(txt, k) ==
    LET occ == {m \in 1..Len(txt) : /\ MarkerKey(Strip(txt[m])) = k
                                    /\ LinesUnderMarkerAt(txt, m) # {}}
    IN IF occ = {} THEN {}
       ELSE LinesUnderMarkerAt(txt, CHOOSE m \in occ : \A o \in occ : o <= m)

NoInstructionLines(txt) ==
    \A j \in 1..Len(txt) :
        /\ ~IsInstructionLine(txt[j])
        /\ ~\E kw \in clean_keywords : Has(kw, txt[j])

----------------------------------------------------------------------------
(* Claims about the codec *)

\* C1: round trip.  Decoding the unchanged encoding of a template T yields a
\* document with as many paragraphs as T whose i-th paragraph has the
\* formatting signature of the i-th paragraph of T.
C1_RoundTripSignatures ==
    (cpc = "decoded" /\ csrc = "template") =>
        /\ Len(cdoc) = Len(ctmpl)
        /\ \A i \in 1..Len(ctmpl) :
              i <= Len(cdoc) =>
                 paragraph_xml_signature(cdoc[i]) = paragraph_xml_signature(ctmpl[i])

C4_MissingSectionKeepsHeader ==
    cpc = "decoded" =>
        \A k \in BodySections :
            ContentLinesUnder(ctxt, k) = {} =>
                cok /\ HasSectionHeader(cdoc, k) /\ BodyCount(cdoc, k) = 0

----------------------------------------------------------------------------
(* automated_resume_tailor.py: text tests on live paragraphs *)

UpperTokens ==
    {"EDUCATION", "PROJECTS", "SKILLS", "TECHNICAL SKILLS", "PROFESSIONAL EXPERIENCE",
     "SUMMARY", "JANE", "DOE", "FORMATTING", "TECHNICAL", "JANE@X.COM", "ML",
     "AN ALL CAPS LINE THAT IS LONGER THAN FORTY EIGHT CHARS"}

UncasedTokens ==
    {" ", "\t", "|", ":", ".", "-", "*", "**", "1.", "2020", "832-775-2886", "BULLET", "@"}

\* "upper": cased characters, all upper case; "lower": some lower-case
\* character; "none": no cased character.
TokCase(t) ==
    IF t \in UpperTokens THEN "upper" ELSE IF t \in UncasedTokens THEN "none" ELSE "lower"

\* str.isupper()
IsUpperStr(l) ==
    /\ \E i \in 1..Len(l) : TokCase(l[i]) = "upper"
    /\ \A i \in 1..Len(l) : TokCase(l[i]) # "lower"

\* len(str): the bullet glyph is one character
TokLen(t) == IF t = "BULLET" THEN 1 ELSE Len(t)

RECURSIVE CharLen(_)
CharLen(l) == IF l = <<>> THEN 0 ELSE TokLen(Head(l)) + CharLen(Tail(l))

MaxHeaderChars == 48

_is_all_caps_header(text) ==
    LET t == Strip(text) IN IsUpperStr(t) /\ 0 < CharLen(t) /\ CharLen(t) <= MaxHeaderChars

_has_numbering(p) == p.numPr # "none"

\* text.startswith("- ")
StartsDashSpace(l) == Len(l) >= 2 /\ l[1] = "-" /\ l[2] = " "

----------------------------------------------------------------------------
(* _build_style_anchors: one scan over doc.paragraphs.  An anchor is the
   index of its paragraph in the document, 0 when the role is absent. *)

Roles == {"SectionHeader", "Bullet", "Body", "Contact"}

RoleRule(role, p) ==
    LET text == Strip(ParaText(p)) IN
    CASE role = "SectionHeader" -> _is_all_caps_header(text)
      [] role = "Contact" ->
            Has("@", text) \/ Has("phone", [i \in 1..Len(text) |-> Lower(text[i])])
            \/ Has("linkedin", [i \in 1..Len(text) |-> Lower(text[i])])
      [] role = "Bullet" ->
            _has_numbering(p) \/ StartsWith(text, "BULLET") \/ StartsDashSpace(text)
      [] role = "Body" ->
            text # <<>> /\ ~_is_all_caps_header(text) /\ ~_has_numbering(p)

\* Variant: the slot is assigned whenever the rule holds (no "not anchors[..]").
AnchorAfter_lastwins(found, role, i, p) == IF RoleRule(role, p) THEN i ELSE found

\* The value of anchors[role] after the loop body ran on paragraph i.
AnchorAfter(found, role, i, p) == IF found = 0 /\ RoleRule(role, p) THEN i ELSE found

NoAnchors == [r \in Roles |-> 0]

ScanParagraph(found, i, p) == [r \in Roles |-> AnchorAfter(found[r], r, i, p)]

RECURSIVE ScanFrom(_, _, _)
ScanFrom(found, doc, i) ==
    IF i > Len(doc) \/ (\A r \in Roles : found[r] # 0) THEN found
    ELSE ScanFrom(ScanParagraph(found, i, doc[i]), doc, i + 1)

_build_style_anchors(doc) == ScanFrom(NoAnchors, doc, 1)

----------------------------------------------------------------------------
(* Anchor discovery specification: the scan of _build_style_anchors, one
   paragraph per step *)

PlainRPr == RPr(11, "false", "unset")

AnchorParaVocab ==
    { SectionHeaderPara("SKILLS"),
      MkPara("CENTER", "0", "none", <<MkRun(PlainRPr, <<"jane@x.com">>)>>),
      MkPara("CENTER", "0", "none", <<MkRun(PlainRPr, <<"JANE@X.COM">>)>>),
      MkPara("LEFT", "0", "num1", <<MkRun(PlainRPr, <<"did">>)>>),
      MkPara("LEFT", "0", "none", <<MkRun(PlainRPr, <<"BULLET", " ", "did">>)>>),
      MkPara("LEFT", "0", "none", <<MkRun(PlainRPr, <<"Phone:", " ", "832-775-2886">>)>>),
      MkPara("LEFT", "0", "none", <<MkRun(PlainRPr, <<"Jane">>)>>),
      MkPara("LEFT", "0", "none",
             <<MkRun(PlainRPr, <<"AN ALL CAPS LINE THAT IS LONGER THAN FORTY EIGHT CHARS">>)>>),
      MkPara("unset", "0", "none", <<>>) }

AnchorInit ==
    /\ apc = "scan"
    /\ adoc \in SeqsUpTo(AnchorParaVocab, MaxAnchorDoc)
    /\ aidx = 0
    /\ anchors = NoAnchors

AllFound == \A r \in Roles : anchors[r] # 0

\* One iteration of "for p in doc.paragraphs" (lines 1008-1025)
ScanStep ==
    /\ apc = "scan"
    /\ aidx < Len(adoc)
    /\ ~AllFound
    /\ anchors' = ScanParagraph(anchors, aidx + 1, adoc[aidx + 1])
    /\ aidx' = aidx + 1
    /\ UNCHANGED <<apc, adoc>>
    /\ UNCHANGED <<codecVars, rewriteVars, paraVars, jobVars, locVars, tailorVars, batchVars, sanVars>>

\* The break once every role is found, or the end of the document
ScanReturn ==
    /\ apc = "scan"
    /\ aidx = Len(adoc) \/ AllFound
    /\ apc' = "done"
    /\ UNCHANGED <<adoc, aidx, anchors>>
    /\ UNCHANGED <<codecVars, rewriteVars, paraVars, jobVars, locVars, tailorVars, batchVars, sanVars>>

AnchorNext == ScanStep \/ ScanReturn

InitAnchors == AnchorInit /\ CodecIdle /\ RewriteIdle /\ ParaIdle /\ JobIdle /\ LocIdle /\ TailorIdle /\ BatchIdle /\ SanIdle

SpecAnchors == InitAnchors /\ [][AnchorNext]_vars

\* First paragraph among the first n of doc that satisfies the rule of role
\* (0 when there is none).
FirstMatch(doc, role, n) ==
    LET ms == {i \in 1..n : RoleRule(role, doc[i])}
    IN IF ms = {} THEN 0 ELSE CHOOSE i \in ms : \A m \in ms : i <= m

\* C10: anchor discovery is first-match-wins.  At every point of the scan each
\* role is bound to the first paragraph scanned so far that satisfies its
\* rule (so a filled slot is never overwritten), and on return each role is
\* bound to the first such paragraph of the whole document and is absent only
\* if no paragraph satisfies its rule.
C10_FirstMatchWins ==
    /\ apc = "scan" =>
          \A r \in Roles : anchors[r] = FirstMatch(adoc, r, aidx)
    /\ apc = "done" =>
          \A r \in Roles : anchors[r] = FirstMatch(adoc, r, Len(adoc))

\* C10 witness: the scan returned; a role has two satisfying paragraphs and is
\* bound to the earlier one, and another role is absent.
C10_Witness ==
    /\ apc = "done"
    /\ \E r \in Roles : \E i, j \in 1..Len(adoc) :
          i < j /\ RoleRule(r, adoc[i]) /\ RoleRule(r, adoc[j]) /\ anchors[r] = i
    /\ \E r \in Roles : anchors[r] = 0

----------------------------------------------------------------------------
(* Cloning a paragraph and replacing its text *)

NoRPr == [font |-> "unset", size |-> 0, bold |-> "unset", underline |-> "unset"]

\* Variant: the additional runs are removed instead of having their text cleared.
_replace_paragraph_text_dropruns(paragraph, new_text) ==
    IF paragraph.runs # <<>>
    THEN [paragraph EXCEPT !.runs = <<[paragraph.runs[1] EXCEPT !.text = new_text]>>]
    ELSE [paragraph EXCEPT !.runs = <<MkRun(NoRPr, new_text)>>]

\* runs[0].text = new_text, the other runs get "", a paragraph without runs
\* gets a new run; _verify_paragraph_formatting_preserved only logs.
_replace_paragraph_text(paragraph, new_text) ==
    IF paragraph.runs # <<>>
    THEN [paragraph EXCEPT !.runs =
            [i \in 1..Len(paragraph.runs) |->
                [paragraph.runs[i] EXCEPT !.text = IF i = 1 THEN new_text ELSE <<>>]]]
    ELSE [paragraph EXCEPT !.runs = <<MkRun(NoRPr, new_text)>>]

\* deepcopy(anchor_paragraph._element): the new element of _clone_paragraph_after
CloneElement(anchor_paragraph) == anchor_paragraph

RunVocab ==
    { MkRun(PlainRPr, <<"Jane">>), MkRun(PlainRPr, <<>>),
      MkRun(RPr(13, "true", "true"), <<"SKILLS">>), MkRun(NoRPr, <<" ", "did">>) }

ParaVocab ==
    { MkPara(al, "0", np, runs) :
        al \in {"LEFT", "CENTER"}, np \in {"none", "num1"}, runs \in SeqsUpTo(RunVocab, MaxRuns) }

ReplacementStrings == { <<>>, <<"Doe">>, <<"BULLET", " ", "did">> }

ParaInit ==
    /\ ppc = "start"
    /\ porig \in ParaVocab
    /\ pstr \in ReplacementStrings
    /\ ppar = <<>>

ClonePara ==
    /\ ppc = "start"
    /\ ppar' = CloneElement(porig)
    /\ ppc' = "cloned"
    /\ UNCHANGED <<porig, pstr>>
    /\ UNCHANGED <<codecVars, rewriteVars, anchorVars, jobVars, locVars, tailorVars, batchVars, sanVars>>

ReplaceText ==
    /\ ppc = "cloned"
    /\ ppar' = _replace_paragraph_text(ppar, pstr)
    /\ ppc' = "replaced"
    /\ UNCHANGED <<porig, pstr>>
    /\ UNCHANGED <<codecVars, rewriteVars, anchorVars, jobVars, locVars, tailorVars, batchVars, sanVars>>

ParaNext == ClonePara \/ ReplaceText

InitPara == ParaInit /\ CodecIdle /\ RewriteIdle /\ AnchorIdle /\ JobIdle /\ LocIdle /\ TailorIdle /\ BatchIdle /\ SanIdle

SpecPara == InitPara /\ [][ParaNext]_vars

OnlyTextChanged(p, orig, s) ==
    /\ paragraph_xml_signature(p) = paragraph_xml_signature(orig)
    /\ Len(p.runs) = Len(orig.runs)
    /\ \A i \in 1..Len(p.runs) : p.runs[i].text = IF i = 1 THEN s ELSE <<>>

\* C7 as stated: for every paragraph P, with zero, one or several runs, the
\* clone of P with its text set to s has the signature of P, the same number
\* of runs, s as the text of the first run and empty text in the other runs.
C7_CloneWithTextKeepsSignature ==
    ppc = "replaced" => OnlyTextChanged(ppar, porig, pstr)

\* C7 amended: the above holds for every P with at least one run; for a P
\* without runs the result keeps P's paragraph and numbering properties and
\* has exactly one run, which carries s and has no run properties.
C7_CloneWithTextKeepsSignatureOfRuns ==
    ppc = "replaced" =>
        IF porig.runs # <<>>
        THEN OnlyTextChanged(ppar, porig, pstr)
        ELSE /\ ppar.pPr = porig.pPr /\ ppar.numPr = porig.numPr
             /\ ppar.runs = <<MkRun(NoRPr, pstr)>>

\* C7 witness: a paragraph of two runs, the second with text, was cloned and
\* given a non-empty text.
C7_Witness ==
    /\ ppc = "replaced"
    /\ Len(porig.runs) = 2 /\ porig.runs[2].text # <<>> /\ pstr # <<>>
    /\ ppar.runs[1].text = pstr

----------------------------------------------------------------------------
(* tailor_resume_strict.py: rewrite_section_from_lines.  Paragraph objects
   live in a heap (a sequence, the identity of a paragraph is its index, 0 is
   Python's None); the document is the sequence of the identities of the
   paragraphs it currently holds.  A deleted paragraph leaves the document
   and stays in the heap, as the Python object does. *)

Or(a, b) == IF a # 0 THEN a ELSE b

IndexOf(doc, id) == CHOOSE k \in 1..Len(doc) : doc[k] = id

\* The helpers below are not part of the excerpt of tailor_resume_strict.py;
\* they follow the description of the rewriter.
has_numbering(p) == p.numPr # "none"

delete_paragraph(doc, id) == SelectSeq(doc, LAMBDA x : x # id)

\* A copy of paragraph id becomes a new object, inserted right after id.
clone_paragraph_after(st, id) ==
    LET new == Len(st.heap) + 1
        k == IndexOf(st.doc, id)
    IN [st EXCEPT !.heap = Append(st.heap, st.heap[id]),
                  !.doc = SubSeq(st.doc, 1, k) \o <<new>> \o SubSeq(st.doc, k + 1, Len(st.doc))]

\* The text goes to the first run; the other runs keep their properties and
\* lose their text.
set_paragraph_text_preserve_runs(p, text) ==
    [p EXCEPT !.runs = [i \in 1..Len(p.runs) |->
                          [p.runs[i] EXCEPT !.text = IF i = 1 THEN text ELSE <<>>]]]

LeadingGlyphs == {"BULLET", "-", "*", "**", " ", "\t"}

RECURSIVE DropLeading(_)
DropLeading(l) ==
    IF l # <<>> /\ Head(l) \in LeadingGlyphs THEN DropLeading(Tail(l)) ELSE l

\* re.sub(r"\s+", " ", s)
RECURSIVE CollapseSpaces(_)
CollapseSpaces(l) ==
    IF l = <<>> THEN <<>>
    ELSE IF IsSpace(Head(l)) THEN <<" ">> \o CollapseSpaces(LStrip(Tail(l)))
    ELSE <<Head(l)>> \o CollapseSpaces(Tail(l))

\* Variant: internal whitespace runs are kept as they are.
_sanitize_nocollapse(s) == Strip(DropLeading(Strip(s)))

_sanitize(s) == Strip(CollapseSpaces(DropLeading(Strip(s))))

\* clean_lines
CleanLines(lines) ==
    SelectSeq([i \in 1..Len(lines) |-> _sanitize(lines[i])], LAMBDA t : t # <<>>)

StartsBulletText(p) ==
    LET t == Strip(ParaText(p)) IN StartsWith(t, "BULLET") \/ StartsDashSpace(t)

had_bullets(heap, old_body) ==
    \E i \in 1..Len(old_body) :
        has_numbering(heap[old_body[i]]) \/ StartsBulletText(heap[old_body[i]])

\* Variant: the old body's bullets are not looked at.
default_anchor_bodyfirst(heap, header, old_body, bullet_anchor, body_anchor) ==
    Or(body_anchor, Or(bullet_anchor, header))

default_anchor(heap, header, old_body, bullet_anchor, body_anchor) ==
    IF had_bullets(heap, old_body) /\ bullet_anchor # 0
    THEN bullet_anchor
    ELSE Or(body_anchor, Or(bullet_anchor, header))

\* Variant: the first paragraph of the old body is left in the document.
RECURSIVE DeleteAll_keepfirst(_, _)
DeleteAll_keepfirst(doc, old_body) ==
    IF Len(old_body) <= 1 THEN doc
    ELSE DeleteAll_keepfirst(delete_paragraph(doc, old_body[Len(old_body)]),
                             SubSeq(old_body, 1, Len(old_body) - 1))

\* for p in old_body: delete_paragraph(p)
RECURSIVE DeleteAll(_, _)
DeleteAll(doc, old_body) ==
    IF old_body = <<>> THEN doc
    ELSE DeleteAll(delete_paragraph(doc, Head(old_body)), Tail(old_body))

\* re.search(r"^\d+[\.\)]\s*", line)
StartsNumbered(line) == line # <<>> /\ line[1] \in {"1."}

HasPipeDelimiter(line) ==
    \E i \in 1..(Len(line) - 2) : line[i] = " " /\ line[i + 1] = "|" /\ line[i + 2] = " "

looks_like_title(line) == HasPipeDelimiter(line) /\ ~StartsNumbered(line)

\* The operations of a call on the document, in the order it performs them
DeleteOps(old_body) == [i \in 1..Len(old_body) |-> [op |-> "delete", id |-> old_body[i], ref |-> 0]]

\* Variant: every new paragraph is put right after the paragraph the loop
\* started from.
RECURSIVE InsertLines_samelast(_, _, _)
InsertLines_samelast(st, last, clean_lines) ==
    IF clean_lines = <<>> THEN st
    ELSE LET st1 == clone_paragraph_after(st, last)
             new_p == Len(st1.heap)
             st2 == [st1 EXCEPT
                        !.heap[new_p] = set_paragraph_text_preserve_runs(@, Head(clean_lines)),
                        !.new_pars = Append(@, new_p),
                        !.ops = Append(@, [op |-> "insert", id |-> new_p, ref |-> last])]
         IN InsertLines_samelast(st2, last, Tail(clean_lines))

\* The loop over clean_lines, the same in both modes: the new paragraph is a
\* clone of `last` (the header, then the previous new paragraph).
RECURSIVE InsertLines(_, _, _)
InsertLines(st, last, clean_lines) ==
    IF clean_lines = <<>> THEN st
    ELSE LET st1 == clone_paragraph_after(st, last)
             new_p == Len(st1.heap)
             st2 == [st1 EXCEPT
                        !.heap[new_p] = set_paragraph_text_preserve_runs(@, Head(clean_lines)),
                        !.new_pars = Append(@, new_p),
                        !.ops = Append(@, [op |-> "insert", id |-> new_p, ref |-> last])]
         IN InsertLines(st2, new_p, Tail(clean_lines))

UniformDrift(st, sig_default) ==
    \E i \in 1..Len(st.new_pars) :
        paragraph_xml_signature(st.heap[st.new_pars[i]]) # sig_default

\* Variant: every new paragraph is compared with the bullet signature.
MixedTarget_bullet(is_title, sig_body, sig_bullet) == sig_bullet

\* target_sig
MixedTarget(is_title, sig_body, sig_bullet) == IF is_title THEN sig_body ELSE sig_bullet

MixedDrift(st, sig_body, sig_bullet) ==
    \E i \in 1..Len(st.new_pars) :
        LET np == st.heap[st.new_pars[i]]
            is_title == looks_like_title(ParaText(np))
        IN paragraph_xml_signature(np) # MixedTarget(is_title, sig_body, sig_bullet)

\* Variant: every line is given the bullet anchor.
AnchorsOfLines_bullet(clean_lines, bullet_anchor, body_anchor, dflt, mixed_mode) ==
    [i \in 1..Len(clean_lines) |-> IF mixed_mode THEN Or(bullet_anchor, dflt) ELSE dflt]

\* `anchor` of each pass of the insertion loop (the default anchor in
\* uniform mode)
AnchorsOfLines(clean_lines, bullet_anchor, body_anchor, dflt, mixed_mode) ==
    [i \in 1..Len(clean_lines) |->
        IF ~mixed_mode THEN dflt
        ELSE IF looks_like_title(clean_lines[i]) THEN Or(body_anchor, dflt)
        ELSE Or(bullet_anchor, dflt)]

\* target_sig of each pass of the mixed-mode verification loop
VerifyTargets(st, sig_body, sig_bullet) ==
    [i \in 1..Len(st.new_pars) |->
        MixedTarget(looks_like_title(ParaText(st.heap[st.new_pars[i]])), sig_body, sig_bullet)]

rewrite_section_from_lines(heap, doc, header, old_body, lines, bullet_anchor, body_anchor, strict_verify, mixed_mode) ==
    LET clean_lines == CleanLines(lines)
        dflt == default_anchor(heap, header, old_body, bullet_anchor, body_anchor)
        sig_default == paragraph_xml_signature(heap[dflt])
        st0 == [heap |-> heap, doc |-> DeleteAll(doc, old_body), new_pars |-> <<>>,
                ops |-> DeleteOps(old_body)]
        st == InsertLines(st0, header, clean_lines)
        sig_bullet == paragraph_xml_signature(heap[Or(bullet_anchor, dflt)])
        sig_body == paragraph_xml_signature(heap[Or(body_anchor, dflt)])
        raised == /\ strict_verify
                  /\ IF mixed_mode THEN MixedDrift(st, sig_body, sig_bullet)
                                   ELSE UniformDrift(st, sig_default)
    IN [heap |-> st.heap, doc |-> st.doc, new_pars |-> st.new_pars, raised |-> raised,
        default_anchor |-> dflt, ops |-> st.ops,
        anchor |-> AnchorsOfLines(clean_lines, bullet_anchor, body_anchor, dflt, mixed_mode),
        target_sig |-> IF mixed_mode /\ strict_verify
                       THEN VerifyTargets(st, sig_body, sig_bullet) ELSE <<>>]

----------------------------------------------------------------------------
(* automated_resume_tailor.py: _replace_section_body and its helpers, on the
   same heap and document *)

HasBulletGlyph(line) == \E i \in 1..Len(line) : line[i] = "BULLET"

_choose_anchor(line, anch) ==
    IF StartsWith(line, "BULLET") \/ StartsDashSpace(line) \/ HasBulletGlyph(line)
    THEN anch["Bullet"]
    ELSE IF _is_all_caps_header(line) THEN anch["SectionHeader"]
    ELSE anch["Body"]

\* deepcopy of the anchor's element, added after the reference paragraph
_clone_paragraph_after(st, ref_paragraph, anchor_paragraph) ==
    LET new == Len(st.heap) + 1
        k == IndexOf(st.doc, ref_paragraph)
    IN [st EXCEPT !.heap = Append(st.heap, CloneElement(st.heap[anchor_paragraph])),
                  !.doc = SubSeq(st.doc, 1, k) \o <<new>> \o SubSeq(st.doc, k + 1, Len(st.doc))]

\* The first loop: st.tp is template_paragraphs, which grows with the clones.
RECURSIVE ReplaceLines(_, _, _, _)
ReplaceLines(st, new_lines, i, anch) ==
    IF i > Len(new_lines) THEN st
    ELSE LET line == new_lines[i]
             anchor == _choose_anchor(line, anch)
         IN IF i <= Len(st.tp)
            THEN ReplaceLines(
                    [st EXCEPT !.heap[st.tp[i]] = _replace_paragraph_text(@, line)],
                    new_lines, i + 1, anch)
            ELSE IF anchor # 0 /\ st.tp # <<>>
            THEN LET st1 == _clone_paragraph_after(st, st.tp[Len(st.tp)], anchor)
                     new_p == Len(st1.heap)
                 IN ReplaceLines(
                        [st1 EXCEPT !.heap[new_p] = _replace_paragraph_text(@, line),
                                    !.tp = Append(@, new_p),
                                    !.new_pars = Append(@, new_p)],
                        new_lines, i + 1, anch)
            ELSE ReplaceLines(st, new_lines, i + 1, anch)

\* The second loop: the excess template paragraphs keep their place and lose
\* their text.
ClearExcess(st, n) ==
    [st EXCEPT !.heap = [id \in 1..Len(st.heap) |->
        IF \E i \in (n + 1)..Len(st.tp) : st.tp[i] = id
        THEN _replace_paragraph_text(st.heap[id], <<>>)
        ELSE st.heap[id]]]

_replace_section_body(heap, doc, template_paragraphs, new_lines, anch) ==
    LET st0 == [heap |-> heap, doc |-> doc, tp |-> template_paragraphs, new_pars |-> <<>>]
    IN ClearExcess(ReplaceLines(st0, new_lines, 1, anch), Len(new_lines))

----------------------------------------------------------------------------
(* The callers' view of a document: sections and anchors *)

IsHeaderPara(p) == _is_all_caps_header(Strip(ParaText(p)))

\* The body of the section whose header is at position k of the document:
\* the paragraphs up to the next ALL-CAPS header (as in _locate_sections).
RECURSIVE BodyFrom(_, _, _)
BodyFrom(heap, doc, k) ==
    IF k > Len(doc) \/ IsHeaderPara(heap[doc[k]]) THEN <<>>
    ELSE <<doc[k]>> \o BodyFrom(heap, doc, k + 1)

\* Anchor discovery of tailor_resume_strict.py, as its module docstring
\* states it.
StrictBulletRule(p) == has_numbering(p) \/ StartsWith(Strip(ParaText(p)), "BULLET")

StrictBodyRule(p) ==
    Strip(ParaText(p)) # <<>> /\ ~IsHeaderPara(p) /\ ~StrictBulletRule(p)

FirstBullet(heap) ==
    LET ms == {i \in 1..Len(heap) : StrictBulletRule(heap[i])}
    IN IF ms = {} THEN 0 ELSE CHOOSE i \in ms : \A m \in ms : i <= m

FirstBody(heap) ==
    LET ms == {i \in 1..Len(heap) : StrictBodyRule(heap[i])}
    IN IF ms = {} THEN 0 ELSE CHOOSE i \in ms : \A m \in ms : i <= m

----------------------------------------------------------------------------
(* Rewrite specification: one section rewrite on a template document *)

RewriteParaVocab ==
    { SectionHeaderPara("SKILLS"),
      MkPara("LEFT", "0", "none", <<MkRun(PlainRPr, <<"PROJECTS">>)>>),
      MkPara("LEFT", "0", "num1", <<MkRun(PlainRPr, <<"did">>)>>),
      MkPara("LEFT", "0", "none", <<MkRun(PlainRPr, <<"BULLET", " ", "did">>)>>),
      MkPara("LEFT", "0", "none", <<MkRun(PlainRPr, <<"Jane">>)>>) }

\* Bodies whose bullets are written with a dash: bulleted for had_bullets,
\* no bullet anchor for the anchor discovery.
DashParaVocab ==
    { MkPara("LEFT", "0", "none", <<MkRun(PlainRPr, <<"-", " ", "did">>)>>),
      MkPara("LEFT", "0", "none", <<MkRun(PlainRPr, <<"Jane">>)>>),
      MkPara("LEFT", "0", "num1", <<MkRun(PlainRPr, <<"did">>)>>) }

DashDocs ==
    {<<SectionHeaderPara("SKILLS")>> \o b : b \in SeqsUpTo(DashParaVocab, MaxDocParas - 1)}

RewriteDocs ==
    {d \in SeqsUpTo(RewriteParaVocab, MaxDocParas) : \E i \in 1..Len(d) : IsHeaderPara(d[i])}
        \cup DashDocs

RewriteLineVocab ==
    { <<"BULLET", " ", "1.", "\t", "Proj", " ", "|", " ", "2020">>,
      <<"-", " ">>,
      <<"Proj", " ", "|", " ", "2020">> }

RewriteLines == SeqsUpTo(RewriteLineVocab, MaxRLines)

Ids(n) == [i \in 1..n |-> i]

RewriteInit ==
    /\ rpc = "ready"
    /\ rheap \in RewriteDocs
    /\ rdoc = Ids(Len(rheap))
    /\ ranch = <<>>
    /\ rin = <<>>
    /\ rnew = <<>>
    /\ rraised = FALSE

\* The paragraph that follows the old body (0 at the end of the document)
FollowerOf(doc, k, old_body) ==
    IF k + Len(old_body) < Len(doc) THEN doc[k + Len(old_body) + 1] ELSE 0

\* A caller rewrites the section of one header with rewrite_section_from_lines
Rewrite ==
    /\ rpc = "ready"
    /\ \E k \in 1..Len(rdoc), lines \in RewriteLines, strict_verify, mixed_mode \in BOOLEAN :
        /\ IsHeaderPara(rheap[rdoc[k]])
        /\ \E old_body \in {BodyFrom(rheap, rdoc, k + 1)} :
           \E bullet_anchor \in {FirstBullet(rheap)}, body_anchor \in {FirstBody(rheap)} :
           \E r \in {rewrite_section_from_lines(rheap, rdoc, rdoc[k], old_body, lines,
                          bullet_anchor, body_anchor, strict_verify, mixed_mode)} :
              /\ rheap' = r.heap
              /\ rdoc' = r.doc
              /\ rnew' = r.new_pars
              /\ rraised' = r.raised
              /\ ranch' = [a \in Roles |->
                             CASE a = "Bullet" -> bullet_anchor
                               [] a = "Body" -> body_anchor
                               [] a = "SectionHeader" -> rdoc[k]
                               [] OTHER -> 0]
              /\ rin' = [op |-> "rewrite", header |-> rdoc[k], old_body |-> old_body,
                         follower |-> FollowerOf(rdoc, k, old_body), lines |-> lines,
                         strict_verify |-> strict_verify, mixed_mode |-> mixed_mode,
                         default_anchor |-> r.default_anchor, ops |-> r.ops,
                         anchor |-> r.anchor, target_sig |-> r.target_sig,
                         doc |-> rdoc, before |-> rheap]
    /\ rpc' = "done"
    /\ UNCHANGED <<codecVars, anchorVars, paraVars, jobVars, locVars, tailorVars, batchVars, sanVars>>

\* A caller replaces the body of one section with _replace_section_body
ReplaceBody ==
    /\ rpc = "ready"
    /\ \E k \in 1..Len(rdoc), lines \in RewriteLines :
        /\ IsHeaderPara(rheap[rdoc[k]])
        /\ \E template_body \in {BodyFrom(rheap, rdoc, k + 1)}, anch \in {_build_style_anchors(rheap)} :
           \E r \in {_replace_section_body(rheap, rdoc, template_body, lines, anch)} :
              /\ rheap' = r.heap
              /\ rdoc' = r.doc
              /\ rnew' = r.new_pars
              /\ ranch' = anch
              /\ rin' = [op |-> "replace_body", header |-> rdoc[k], old_body |-> template_body,
                         follower |-> FollowerOf(rdoc, k, template_body), lines |-> lines,
                         strict_verify |-> FALSE, mixed_mode |-> FALSE,
                         default_anchor |-> 0, ops |-> <<>>, anchor |-> <<>>, target_sig |-> <<>>,
                         doc |-> rdoc, before |-> rheap]
    /\ rraised' = FALSE
    /\ rpc' = "done"
    /\ UNCHANGED <<codecVars, anchorVars, paraVars, jobVars, locVars, tailorVars, batchVars, sanVars>>

RewriteNext == Rewrite \/ ReplaceBody

InitRewrite == RewriteInit /\ CodecIdle /\ AnchorIdle /\ ParaIdle /\ JobIdle /\ LocIdle /\ TailorIdle /\ BatchIdle /\ SanIdle

SpecRewrite == InitRewrite /\ [][RewriteNext]_vars

----------------------------------------------------------------------------
(* Claims on the section rewriter *)

\* The paragraphs of the document after the header of the call and before
\* the paragraph that followed the old body
SectionNow ==
    LET h == IndexOf(rdoc, rin.header)
        e == IF rin.follower = 0 THEN Len(rdoc) + 1 ELSE IndexOf(rdoc, rin.follower)
    IN SubSeq(rdoc, h + 1, e - 1)

TextsOf(ids) == [i \in 1..Len(ids) |-> ParaText(rheap[ids[i]])]

AfterRewrite == rpc = "done" /\ rin.op = "rewrite"

\* C2: line-count independence.  After rewrite_section_from_lines on a
\* section with M old body paragraphs and lines that normalize to N non-empty
\* lines, the document holds between the header and the paragraph that
\* followed the old body exactly N paragraphs whose texts are the N
\* normalized lines in input order; the header is kept, and with N = 0 the
\* body is empty and no error is raised.
C2_LineCountIndependence ==
    AfterRewrite =>
        /\ \E k \in 1..Len(rdoc) : rdoc[k] = rin.header
        /\ rheap[rin.header] = rin.before[rin.header]
        /\ rin.follower # 0 => \E k \in 1..Len(rdoc) : rdoc[k] = rin.follower
        /\ TextsOf(SectionNow) = CleanLines(rin.lines)
        /\ CleanLines(rin.lines) = <<>> => SectionNow = <<>> /\ ~rraised

\* C2 witness: a rewrite replaced M = 1 old paragraph by N = 2 lines out of
\* more input lines, in front of a following section.
C2_Witness ==
    /\ AfterRewrite
    /\ Len(rin.old_body) = 1 /\ rin.follower # 0
    /\ Len(SectionNow) = 2 /\ Len(rin.lines) = 2
    /\ TextsOf(SectionNow) = << <<"1.", " ", "Proj", " ", "|", " ", "2020">>,
                               <<"Proj", " ", "|", " ", "2020">> >>

\* The anchor rewrite_section_from_lines selects for its i-th clean line
SelectedAnchor(i) ==
    LET dflt == default_anchor(rin.before, rin.header, rin.old_body,
                               ranch["Bullet"], ranch["Body"])
        line == CleanLines(rin.lines)[i]
    IN IF ~rin.mixed_mode THEN dflt
       ELSE IF looks_like_title(line) THEN Or(ranch["Body"], dflt)
       ELSE Or(ranch["Bullet"], dflt)

DriftExists ==
    \E i \in 1..Len(rnew) :
        paragraph_xml_signature(rheap[rnew[i]])
            # paragraph_xml_signature(rin.before[SelectedAnchor(i)])

\* C5: strict verification.  With strict_verify the call raises the
\* formatting-drift error exactly when some newly inserted paragraph has a
\* signature different from the signature of the anchor selected for its
\* line; without strict_verify the call never raises it.
C5_StrictVerification ==
    AfterRewrite =>
        /\ Len(rnew) = Len(CleanLines(rin.lines))
        /\ rraised <=> (rin.strict_verify /\ DriftExists)

\* C5 witness: a strict mixed-mode call inserted a title line and a detail
\* line, whose anchors have different signatures, and raised.
C5_Witness ==
    /\ AfterRewrite /\ rin.strict_verify /\ rin.mixed_mode /\ rraised
    /\ Len(rnew) = 2
    /\ SelectedAnchor(1) # SelectedAnchor(2)
    /\ paragraph_xml_signature(rin.before[SelectedAnchor(1)])
          # paragraph_xml_signature(rin.before[SelectedAnchor(2)])

\* C8: anchors are never mutated.  After a section rewrite every paragraph
\* bound as an anchor is still in the document, with the text and the
\* formatting it had when the anchors were discovered.
C8_AnchorsNeverMutated ==
    rpc = "done" =>
        \A a \in Roles :
            ranch[a] # 0 =>
                /\ \E k \in 1..Len(rdoc) : rdoc[k] = ranch[a]
                /\ rheap[ranch[a]] = rin.before[ranch[a]]

----------------------------------------------------------------------------
(* One job: generate_resume, or a direct call of structured_txt_to_docx, on
   a file system.  A file is absent, a document, or not a readable document. *)

Absent == [kind |-> "absent"]
Corrupt == [kind |-> "corrupt"]
Partial == [kind |-> "partial"]
DocxFile(doc) == [kind |-> "docx", doc |-> doc]

RECURSIVE JoinStr(_)
JoinStr(l) == IF l = <<>> THEN "" ELSE Head(l) \o JoinStr(Tail(l))

\* re.sub(r'[^\w\s-]', '', name): the tokens of letters, spaces and hyphens stay
WordSpaceHyphen(t) == t \notin {".", ",", "/", "&"}

IsSeparatorTok(t) == IsSpace(t) \/ t = "-"

\* re.sub(r'[-\s]+', '_', name)
RECURSIVE CollapseSeparators(_)
CollapseSeparators(l) ==
    IF l = <<>> THEN <<>>
    ELSE IF IsSeparatorTok(Head(l))
         THEN IF Len(l) > 1 /\ IsSeparatorTok(l[2])
              THEN CollapseSeparators(Tail(l))
              ELSE <<"_">> \o CollapseSeparators(Tail(l))
    ELSE <<Head(l)>> \o CollapseSeparators(Tail(l))

\* safe_company_name / safe_job_title
SafeName(name) ==
    LET kept == Strip(SelectSeq(name, WordSpaceHyphen))
        under == CollapseSeparators(kept)
    IN JoinStr([i \in 1..Len(under) |-> Lower(under[i])])

OutputFilename(company_name, job_title) ==
    "Aishwaryeshwar_Manickavel_"
        \o SafeName(IF company_name = <<>> THEN <<"company">> ELSE company_name)
        \o "_" \o SafeName(job_title) \o ".docx"

\* job_title.replace(' ', '_').lower() in the name a dry run returns
DryRunFilename(job_title) ==
    "tailored_resume_"
        \o JoinStr([i \in 1..Len(job_title) |->
                      IF job_title[i] = " " THEN "_" ELSE Lower(job_title[i])])
        \o ".docx"

\* Variant: the output path is returned whatever structured_txt_to_docx reports.
GenerateResult_alwayspath(success, output_path) == output_path

\* return str(output_path) if success else ""
GenerateResult(success, output_path) == IF success THEN output_path ELSE ""

JobTemplates ==
    { <<MkPara("CENTER", "0", "none", <<MkRun(RPr(16, "true", "unset"), <<"Jane", " ", "Doe">>)>>),
        SectionHeaderPara("EDUCATION"),
        MkPara("LEFT", "0", "none", <<MkRun(RPr(12, "false", "unset"), <<"Univ", " ", "|", " ", "2020">>)>>)>>,
      <<MkPara("unset", "0", "none", <<>>)>> }

JobTexts ==
    { <<>>,
      << <<"===HEADER===">>, <<"Jane", " ", "Doe">> >>,
      << <<"===EDUCATION===">>, <<"Univ", " ", "|", " ", "2020">> >> }

JobCompanies == { <<>>, <<"Acme", " ", "Inc", ".">> }

JobTitles == { <<"ML", " ", "Engineer">> }

MasterPaths == { "master.docx", "Aishwaryeshwar_Manickavel_acme_inc_ml_engineer.docx" }

OutputPaths == { "out.docx", "master.docx" }

JobPaths ==
    MasterPaths \cup OutputPaths
        \cup {OutputFilename(c, t) : c \in JobCompanies, t \in JobTitles}

\* What fails in the job, if it gets that far
JobFaults == {"none", "build", "save"}

JobInputs ==
    [ entry : {"generate_resume"},
      master : MasterPaths,
      master_file : {DocxFile(d) : d \in JobTemplates} \cup {Corrupt, Absent},
      output_path : {""},
      text : {<<>>},
      company_name : JobCompanies,
      job_title : JobTitles,
      dry_run : BOOLEAN,
      llm_client : BOOLEAN,
      fault : JobFaults ]
    \cup
    [ entry : {"structured_txt_to_docx"},
      master : {"master.docx"},
      master_file : {DocxFile(d) : d \in JobTemplates},
      output_path : OutputPaths,
      text : JobTexts,
      company_name : {<<>>},
      job_title : {<<>>},
      dry_run : {FALSE},
      llm_client : {FALSE},
      fault : JobFaults ]

FilesAtStart(in) == [p \in JobPaths |-> IF p = in.master THEN in.master_file ELSE Absent]

JobInit ==
    /\ jpc = "start"
    /\ jin \in JobInputs
    /\ jfiles = FilesAtStart(jin)
    /\ jtxt = <<>>
    /\ jdoc = <<>>
    /\ jret = "pending"
    /\ jwrites = {}
    /\ jfailed = "none"

\* The path structured_txt_to_docx saves to
OutputPath ==
    IF jin.entry = "generate_resume"
    THEN OutputFilename(jin.company_name, jin.job_title)
    ELSE jin.output_path

\* What the entry point returns to its caller when the conversion succeeded or not
Result(success) ==
    IF jin.entry = "generate_resume" THEN GenerateResult(success, OutputPath)
    ELSE IF success THEN "True" ELSE "False"

\* generate_resume up to its try block: dry run and missing LLM client
EnterGenerate ==
    /\ jpc = "start" /\ jin.entry = "generate_resume"
    /\ IF jin.dry_run
       THEN jret' = DryRunFilename(jin.job_title) /\ jpc' = "done"
       ELSE IF ~jin.llm_client
       THEN jret' = "" /\ jpc' = "done"
       ELSE jret' = jret /\ jpc' = "encode"
    /\ UNCHANGED <<jin, jfiles, jtxt, jdoc, jwrites, jfailed>>
    /\ UNCHANGED <<codecVars, rewriteVars, anchorVars, paraVars, locVars, tailorVars, batchVars, sanVars>>

\* STEP 1: docx_to_structured_txt returns "" when the template does not load
EncodeTemplate ==
    /\ jpc = "encode"
    /\ LET f == jfiles[jin.master]
           txt == IF f.kind = "docx" THEN docx_to_structured_txt(f.doc) ELSE <<>>
       IN IF txt = <<>>
          THEN /\ jret' = "" /\ jpc' = "done" /\ jfailed' = "load"
               /\ jtxt' = jtxt
          ELSE /\ jtxt' = txt /\ jpc' = "rewrite"
               /\ UNCHANGED <<jret, jfailed>>
    /\ UNCHANGED <<jin, jfiles, jdoc, jwrites>>
    /\ UNCHANGED <<codecVars, rewriteVars, anchorVars, paraVars, locVars, tailorVars, batchVars, sanVars>>

\* STEP 2: the rewriting step returns a text or nothing
GenerateContent ==
    /\ jpc = "rewrite"
    /\ \E tailored \in JobTexts :
         IF tailored = <<>>
         THEN /\ jret' = "" /\ jpc' = "done" /\ jfailed' = "rewrite"
              /\ jtxt' = jtxt
         ELSE /\ jtxt' = tailored /\ jpc' = "build"
              /\ UNCHANGED <<jret, jfailed>>
    /\ UNCHANGED <<jin, jfiles, jdoc, jwrites>>
    /\ UNCHANGED <<codecVars, rewriteVars, anchorVars, paraVars, locVars, tailorVars, batchVars, sanVars>>

\* A direct call of structured_txt_to_docx(text, master_docx_path, output_path)
EnterDecoder ==
    /\ jpc = "start" /\ jin.entry = "structured_txt_to_docx"
    /\ jtxt' = jin.text
    /\ jpc' = "build"
    /\ UNCHANGED <<jin, jfiles, jdoc, jret, jwrites, jfailed>>
    /\ UNCHANGED <<codecVars, rewriteVars, anchorVars, paraVars, locVars, tailorVars, batchVars, sanVars>>

\* structured_txt_to_docx, clean, parse and the _add_*_section calls on a
\* fresh Document; an exception in them is caught and reported
BuildSections ==
    /\ jpc = "build"
    /\ IF jin.fault = "build"
       THEN /\ jret' = Result(FALSE) /\ jpc' = "done" /\ jfailed' = "build"
            /\ jdoc' = jdoc
       ELSE /\ jdoc' = BuildDocument(jtxt) /\ jpc' = "save"
            /\ UNCHANGED <<jret, jfailed>>
    /\ UNCHANGED <<jin, jfiles, jtxt, jwrites>>
    /\ UNCHANGED <<codecVars, rewriteVars, anchorVars, paraVars, locVars, tailorVars, batchVars, sanVars>>

\* new_doc.save(output_path), the last statement of the try block; a save
\* that raises leaves no file or an unfinished one
SaveDocument ==
    /\ jpc = "save"
    /\ IF jin.fault = "save"
       THEN /\ \/ jfiles' = jfiles /\ jwrites' = jwrites
               \/ jfiles' = [jfiles EXCEPT ![OutputPath] = Partial]
                  /\ jwrites' = jwrites \cup {OutputPath}
            /\ jret' = Result(FALSE) /\ jfailed' = "save"
       ELSE /\ jfiles' = [jfiles EXCEPT ![OutputPath] = DocxFile(jdoc)]
            /\ jwrites' = jwrites \cup {OutputPath}
            /\ jret' = Result(TRUE) /\ jfailed' = jfailed
    /\ jpc' = "done"
    /\ UNCHANGED <<jin, jtxt, jdoc>>
    /\ UNCHANGED <<codecVars, rewriteVars, anchorVars, paraVars, locVars, tailorVars, batchVars, sanVars>>

JobNext ==
    \/ EnterGenerate
    \/ EncodeTemplate
    \/ GenerateContent
    \/ EnterDecoder
    \/ BuildSections
    \/ SaveDocument

InitJob == JobInit /\ CodecIdle /\ RewriteIdle /\ AnchorIdle /\ ParaIdle /\ LocIdle /\ TailorIdle /\ BatchIdle /\ SanIdle

SpecJob == InitJob /\ [][JobNext]_vars

\* C6: no partial output.  When a conversion fails because the template does
\* not load, the rewriting step returns nothing or a section-building step
\* raises, no file has been written for the job and the caller gets the
\* failure value (False from structured_txt_to_docx, the empty path from
\* generate_resume).
C6_NoPartialOutput ==
    jfailed \in {"load", "rewrite", "build"} =>
        /\ jpc = "done"
        /\ jwrites = {}
        /\ jfiles = FilesAtStart(jin)
        /\ jret = IF jin.entry = "generate_resume" THEN "" ELSE "False"

\* C6 witness: a run of generate_resume got a text from the rewriting step and
\* failed while the sections were built.
C6_Witness ==
    /\ jpc = "done" /\ jfailed = "build"
    /\ jin.entry = "generate_resume" /\ jtxt # <<>>
    /\ jfiles[OutputPath] = Absent

\* C9: the template is read-only.  After a call of structured_txt_to_docx or
\* a run of generate_resume the file at master_docx_path is what it was, and
\* nothing but the output path was written, which is not the template path.
C9_TemplateReadOnly ==
    jpc = "done" =>
        /\ jfiles[jin.master] = jin.master_file
        /\ jin.master \notin jwrites
        /\ jwrites \subseteq {OutputPath}

----------------------------------------------------------------------------
(* Further claims on anchor discovery *)

\* C11: the Body anchor is never a header or a bullet.  On return of
\* _build_style_anchors the paragraph bound to Body is not ALL-CAPS header
\* text, has no numbering, and its text starts neither with the bullet glyph
\* nor with "- ".
C11_BodyAnchorNotHeaderNorBullet ==
    (apc = "done" /\ anchors["Body"] # 0) =>
        LET p == adoc[anchors["Body"]]
            text == Strip(ParaText(p))
        IN /\ ~_is_all_caps_header(text)
           /\ ~_has_numbering(p)
           /\ ~StartsWith(text, "BULLET")
           /\ ~StartsDashSpace(text)

----------------------------------------------------------------------------
(* _locate_sections: one scan over doc.paragraphs.  A section is a record of
   its header (the index of the paragraph, 0 for None) and its body (the
   indices of its paragraphs). *)

Section(header, body) == [header |-> header, body |-> body]

\* The loop body on paragraph i; st holds sections, current_header and
\* current_body.
LocateParagraph(st, i, p) ==
    IF _is_all_caps_header(Strip(ParaText(p)))
    THEN [sections |-> IF st.current_header # 0
                       THEN Append(st.sections, Section(st.current_header, st.current_body))
                       ELSE st.sections,
          current_header |-> i,
          current_body |-> <<>>]
    ELSE [st EXCEPT !.current_body = Append(@, i)]

\* After the loop: the last section, or the headerless section of a document
\* without headers.
LocateFinish(st) ==
    IF st.current_header # 0
    THEN Append(st.sections, Section(st.current_header, st.current_body))
    ELSE IF st.current_body # <<>>
    THEN Append(st.sections, Section(0, st.current_body))
    ELSE st.sections

RECURSIVE LocateFrom(_, _, _)
LocateFrom(st, doc, i) ==
    IF i > Len(doc) THEN st ELSE LocateFrom(LocateParagraph(st, i, doc[i]), doc, i + 1)

_locate_sections(doc) ==
    LocateFinish(LocateFrom([sections |-> <<>>, current_header |-> 0, current_body |-> <<>>],
                            doc, 1))

LocInit ==
    /\ lpc = "scan"
    /\ ldoc \in SeqsUpTo(AnchorParaVocab, MaxAnchorDoc)
    /\ lidx = 0
    /\ lhdr = 0
    /\ lbody = <<>>
    /\ lsecs = <<>>

LocState == [sections |-> lsecs, current_header |-> lhdr, current_body |-> lbody]

\* One iteration of "for p in doc.paragraphs"
LocateStep ==
    /\ lpc = "scan"
    /\ lidx < Len(ldoc)
    /\ LET st == LocateParagraph(LocState, lidx + 1, ldoc[lidx + 1])
       IN /\ lsecs' = st.sections
          /\ lhdr' = st.current_header
          /\ lbody' = st.current_body
    /\ lidx' = lidx + 1
    /\ UNCHANGED <<lpc, ldoc>>
    /\ UNCHANGED <<codecVars, rewriteVars, anchorVars, paraVars, jobVars, tailorVars, batchVars, sanVars>>

\* The statements after the loop, and the return
LocateReturn ==
    /\ lpc = "scan"
    /\ lidx = Len(ldoc)
    /\ lsecs' = LocateFinish(LocState)
    /\ lpc' = "done"
    /\ UNCHANGED <<ldoc, lidx, lhdr, lbody>>
    /\ UNCHANGED <<codecVars, rewriteVars, anchorVars, paraVars, jobVars, tailorVars, batchVars, sanVars>>

LocNext == LocateStep \/ LocateReturn

InitLocate == LocInit /\ CodecIdle /\ RewriteIdle /\ AnchorIdle /\ ParaIdle /\ JobIdle /\ TailorIdle /\ BatchIdle /\ SanIdle

SpecLocate == InitLocate /\ [][LocNext]_vars

SectionParas(sec) == (IF sec.header # 0 THEN <<sec.header>> ELSE <<>>) \o sec.body

HeaderIndices(doc) == {i \in 1..Len(doc) : IsHeaderPara(doc[i])}

\* C12: the section locator partitions the document.  The headers and bodies
\* of the returned sections, concatenated in order, are the paragraphs of the
\* document, each once and in document order; the paragraphs before the
\* first ALL-CAPS header form one leading section without header, and a
\* document without any header is a single headerless section.
C12_LocatorPartitions ==
    lpc = "done" =>
        /\ Flatten([k \in 1..Len(lsecs) |-> SectionParas(lsecs[k])]) = Ids(Len(ldoc))
        /\ (ldoc # <<>> /\ ~IsHeaderPara(ldoc[1])) => lsecs[1].header = 0
        /\ (ldoc # <<>> /\ HeaderIndices(ldoc) = {}) => Len(lsecs) = 1

----------------------------------------------------------------------------
(* Further claims on the encoder and on the parser of the decoder *)

IsBlankPara(p) == Strip(ParaText(p)) = <<>>

\* A line that is exactly one of the values of section_markers
IsMarkerValue(line) == \E k \in SectionKeys : line = <<section_markers[k]>>

NonEmptyLines(txt) == SelectSeq(txt, LAMBDA l : l # <<>>)

\* C13: the encoded text is fully tagged.  For a document with at least one
\* non-blank paragraph the first non-empty line of the text returned by
\* docx_to_structured_txt is a section marker.
C13_EncodedTextFullyTagged ==
    (cpc = "encoded" /\ \E i \in 1..Len(ctmpl) : ~IsBlankPara(ctmpl[i])) =>
        /\ NonEmptyLines(ctxt) # <<>>
        /\ IsMarkerValue(NonEmptyLines(ctxt)[1])

IsRecognizedHeader(p) ==
    LET text == Strip(ParaText(p))
    IN text # <<>> /\ _is_section_header(text) /\ _map_to_section_key(text) # None

TrimmedTexts(doc) ==
    SelectSeq([i \in 1..Len(doc) |-> Strip(ParaText(doc[i]))], LAMBDA t : t # <<>>)

NotMarker(lines) == SelectSeq(lines, LAMBDA l : ~IsMarkerValue(l))

EmptyLineCount(txt) == Cardinality({i \in 1..Len(txt) : txt[i] = <<>>})

\* C14 as stated: the text returned by docx_to_structured_txt contains no
\* empty line, and its non-marker lines are exactly the trimmed texts of the
\* non-blank paragraphs in document order.
C14_NoEmptyLine ==
    cpc = "encoded" =>
        /\ EmptyLineCount(ctxt) = 0
        /\ NotMarker(ctxt) = TrimmedTexts(ctmpl)

\* C14 amended: no empty line stems from a blank paragraph.  The empty lines
\* of the text are the ones written in front of the marker of a recognized
\* section header, one per such header paragraph and each directly followed
\* by a marker line; the lines that are neither empty nor a marker are the
\* trimmed texts of the non-blank paragraphs (a text that is itself a marker
\* excepted) in document order.
C14_BlankParagraphsSkipped ==
    cpc = "encoded" =>
        /\ \A i \in 1..Len(ctxt) :
              ctxt[i] = <<>> => (i < Len(ctxt) /\ IsMarkerValue(ctxt[i + 1]))
        /\ EmptyLineCount(ctxt)
              = Cardinality({i \in 1..Len(ctmpl) : IsRecognizedHeader(ctmpl[i])})
        /\ NotMarker(NonEmptyLines(ctxt)) = NotMarker(TrimmedTexts(ctmpl))

\* C14 witness: a template with a blank paragraph between two non-blank ones,
\* one of them a recognized header, was encoded.
C14_Witness ==
    /\ cpc = "encoded" /\ Len(ctmpl) = 3
    /\ IsBlankPara(ctmpl[2]) /\ IsRecognizedHeader(ctmpl[1]) /\ ~IsBlankPara(ctmpl[3])
    /\ Len(NotMarker(NonEmptyLines(ctxt))) = 2

\* The stripped lines of txt at the indices of S, in text order
LinesAt(txt, S) ==
    LET idx == SelectSeq(Ids(Len(txt)), LAMBDA j : j \in S)
    IN [n \in 1..Len(idx) |-> Strip(txt[idx[n]])]

\* C15: every marker the encoder can emit is recognized by the parser as the
\* start of the section with the same key, and parsing an encoded text puts
\* each content line in the bucket of the marker that precedes it.
C15_EncoderMarkersRecognized ==
    /\ \A k \in SectionKeys : MarkerKey(<<section_markers[k]>>) = k
    /\ (cpc = "parsed" /\ csrc = "template") =>
          \A k \in SectionKeys : \A j \in ContentLinesUnder(ctxt, k) :
             \E n \in 1..Len(Get(csec, k)) : Get(csec, k)[n] = Strip(ctxt[j])

\* Indices of the non-empty lines of txt that precede its first marker
LinesBeforeFirstMarker(txt) ==
    {j \in 1..Len(txt) : IsContentLine(txt[j]) /\ MarkerBefore(txt, j) = 0}

IsPrefixOf(a, b) == Len(a) <= Len(b) /\ SubSeq(b, 1, Len(a)) = a

\* C16: every non-empty line before the first marker is in the HEADER bucket,
\* in text order, also when an explicit HEADER marker with its own content
\* lines appears later in the text.
C16_ImplicitHeaderBucket ==
    cpc = "parsed" =>
        IsPrefixOf(LinesAt(ctxt, LinesBeforeFirstMarker(ctxt)), Get(csec, "HEADER"))

\* Indices of the recognized marker lines of txt, in text order
MarkerIndices(txt) ==
    SelectSeq(Ids(Len(txt)), LAMBDA j : MarkerKey(Strip(txt[j])) # None)

\* The i-th section of txt: its marker line and the lines up to the next marker
SectionBlock(txt, i) ==
    LET ms == MarkerIndices(txt)
        last == IF i < Len(ms) THEN ms[i + 1] - 1 ELSE Len(txt)
    IN SubSeq(txt, ms[i], last)

\* txt with its sections reordered by pi, the lines before the first marker kept in front
Reordered(txt, pi) ==
    LET ms == MarkerIndices(txt)
        pre == IF ms = <<>> THEN txt ELSE SubSeq(txt, 1, ms[1] - 1)
    IN pre \o Flatten([i \in 1..Len(ms) |-> SectionBlock(txt, pi[i])])

SectionOrders(n) == {f \in [1..n -> 1..n] : \A i, j \in 1..n : f[i] = f[j] => i = j}

\* A line that looks like a marker but is not in the parser's vocabulary
IsUnknownMarker(line) == Strip(line) = <<"===SUMMARY===">> /\ MarkerKey(Strip(line)) = None

\* The bucket that is current at line j (HEADER when no marker has been seen)
CurrentBucket(txt, j) ==
    IF MarkerBefore(txt, j) = 0 THEN "HEADER" ELSE MarkerKey(Strip(txt[MarkerBefore(txt, j)]))

C17_KnownKeysOnly == cpc = "parsed" => DOMAIN csec \subseteq SectionKeys

C17_UnknownMarkerKept ==
    cpc = "parsed" =>
        \A j \in 1..Len(ctxt) : IsUnknownMarker(ctxt[j]) =>
            \E n \in 1..Len(Get(csec, CurrentBucket(ctxt, j))) :
                Get(csec, CurrentBucket(ctxt, j))[n] = Strip(ctxt[j])

C17_OrderIndependent ==
    cpc = "parsed" =>
        \A pi \in SectionOrders(Len(MarkerIndices(ctxt))) :
            \A k \in SectionKeys :
                Get(_parse_ai_structured_txt(Reordered(ctxt, pi)), k) = Get(csec, k)

\* C17: the parser tolerates arbitrary text: it returns buckets only for the
\* five section keys, keeps a marker-like line outside the vocabulary as a
\* content line of the current bucket (HEADER when no marker has been seen),
\* and the content of each bucket does not depend on the order of the sections.
C17_ParserToleratesArbitraryText ==
    /\ C17_KnownKeysOnly
    /\ C17_UnknownMarkerKept
    /\ C17_OrderIndependent

\* The replacement lines of the finished call that had no usable anchor: in
\* _replace_section_body a line beyond the template body whose chosen anchor
\* is absent or that has no paragraph to clone after; in
\* rewrite_section_from_lines a line for which not even the header is left
\* as default anchor.
LinesWithoutAnchor ==
    IF rin.op = "replace_body"
    THEN {i \in 1..Len(rin.lines) :
            /\ i > Len(rin.old_body)
            /\ (_choose_anchor(rin.lines[i], ranch) = 0 \/ rin.old_body = <<>>)}
    ELSE {i \in 1..Len(CleanLines(rin.lines)) :
            default_anchor(rin.before, rin.header, rin.old_body, ranch["Bullet"], ranch["Body"]) = 0}

\* C18: a section rewrite with a replacement line that has no usable anchor
\* fails with an error; it never completes while dropping the line.
C18_MissingAnchorIsHardFailure ==
    rpc = "done" => (LinesWithoutAnchor # {} => rraised)

----------------------------------------------------------------------------
(* automated_resume_tailor.py: the ResumeTailor object and its collaborators.
   The world outside the process is the file system, the cells written to the
   spreadsheet, the files uploaded to Drive and the numbers of model calls and
   spreadsheet reads.  Log records are not part of the world.  A method is an
   operator from the object, the world and the arguments to the new world and
   the returned value. *)

\* A row of the sheet as process_job_data returns it, with what its
\* collaborators will answer for it: fault is what goes wrong in the
\* conversion of the job if it gets that far.
MkJob(valid, link, company, fault, upload_ok, update_ok, cover_link, cover_ok) ==
    [ valid |-> valid, link |-> link, company |-> company, title |-> <<"ML", " ", "Engineer">>,
      fault |-> fault, upload_ok |-> upload_ok, update_ok |-> update_ok,
      cover_link |-> cover_link, cover_ok |-> cover_ok,
      keywords |-> "", kws |-> <<"python">>, KEYWORDS |-> "", KEYWORDS_RAW |-> <<>> ]

AcmeInc == <<"Acme", " ", "Inc", ".">>

JobRecordVocab ==
    { MkJob(TRUE, FALSE, <<>>, "none", TRUE, TRUE, FALSE, TRUE),
      MkJob(TRUE, FALSE, AcmeInc, "none", TRUE, TRUE, TRUE, TRUE),
      MkJob(TRUE, FALSE, <<>>, "rewrite", TRUE, TRUE, FALSE, TRUE),
      MkJob(TRUE, FALSE, <<>>, "build", TRUE, TRUE, TRUE, TRUE),
      MkJob(TRUE, FALSE, AcmeInc, "save_partial", TRUE, TRUE, FALSE, FALSE),
      MkJob(TRUE, FALSE, <<>>, "save_nofile", TRUE, TRUE, FALSE, TRUE),
      MkJob(TRUE, FALSE, <<>>, "none", FALSE, TRUE, FALSE, TRUE),
      MkJob(TRUE, FALSE, <<>>, "none", TRUE, FALSE, FALSE, FALSE),
      MkJob(TRUE, TRUE, <<>>, "none", TRUE, TRUE, FALSE, TRUE),
      MkJob(TRUE, TRUE, <<>>, "none", TRUE, TRUE, TRUE, TRUE),
      MkJob(FALSE, FALSE, <<>>, "none", TRUE, TRUE, FALSE, TRUE),
      [MkJob(TRUE, FALSE, <<>>, "none", TRUE, TRUE, FALSE, TRUE) EXCEPT !.keywords = "python (rank 1)"],
      [MkJob(TRUE, FALSE, <<>>, "none", TRUE, TRUE, FALSE, TRUE) EXCEPT !.kws = <<>>] }

\* The master template of the sessions and batches
MasterTemplate ==
    << MkPara("CENTER", "0", "none", <<MkRun(RPr(16, "true", "unset"), <<"Jane", " ", "Doe">>)>>),
       SectionHeaderPara("EDUCATION"),
       MkPara("LEFT", "0", "none", <<MkRun(RPr(12, "false", "unset"), <<"Univ", " ", "|", " ", "2020">>)>>) >>

\* The text the rewriting step returns when it returns one
TailoredText == << <<"===HEADER===">>, <<"Jane", " ", "Doe">> >>

World(master, master_file) ==
    [ files |-> [p \in JobPaths |-> IF p = master THEN master_file ELSE Absent],
      cells |-> {}, uploads |-> {}, model_calls |-> 0, sheet_reads |-> 0 ]

FileAt(w, path) == IF path \in DOMAIN w.files THEN w.files[path] ELSE Absent

\* __init__ with _init_google_client, _init_llm_client, _init_drive_client:
\* in a dry run no client is created, otherwise each one is created or not
ResumeTailor(dry_run, env_dry_run, gc, llm_client, drive) ==
    LET d == dry_run \/ env_dry_run
    IN [ dry_run |-> d, gc |-> ~d /\ gc, llm_client |-> ~d /\ llm_client, drive |-> ~d /\ drive ]

DryRunLink == "https://drive.google.com/file/d/dry_run_file_id/view"

\* The shareable link of an uploaded file; the file name stands for the file id
DriveLink(file_path) == "https://drive.google.com/file/d/" \o file_path \o "/view"

ValidRows(rows) == {i \in 1..Len(rows) : rows[i].valid}

\* keywords_str of a list of extracted keywords
KeywordsStr(kws) == IF kws = <<>> THEN "" ELSE kws[1] \o " (rank 1)"

\* Rows whose keywords are extracted: no stored keywords or overwrite, and
\* both title and description
ExtractRows(rows, overwrite_keywords) ==
    {i \in ValidRows(rows) : rows[i].keywords = "" \/ overwrite_keywords}

\* rec of one row: "Extract or reuse keywords".  row.keywords is the stored
\* cell, row.kws what the extraction returns for the description.
JobRecord(row, overwrite_keywords) ==
    IF row.keywords # "" /\ ~overwrite_keywords
    THEN [row EXCEPT !.KEYWORDS = row.keywords, !.KEYWORDS_RAW = <<>>]
    ELSE IF ~row.valid \/ row.kws = <<>>
    THEN [row EXCEPT !.KEYWORDS = "", !.KEYWORDS_RAW = <<>>]
    ELSE [row EXCEPT !.KEYWORDS = KeywordsStr(row.kws), !.KEYWORDS_RAW = row.kws]

\* process_job_data: one model call per row whose keywords are extracted,
\* one cell written per successful extraction
process_job_data(self, w, rows, overwrite_keywords) ==
    IF self.dry_run THEN [w |-> w, ret |-> <<>>]
    ELSE IF ~self.gc \/ ~self.llm_client THEN [w |-> w, ret |-> <<>>]
    ELSE LET ex == ExtractRows(rows, overwrite_keywords)
         IN [ w |-> [w EXCEPT !.sheet_reads = @ + 1,
                              !.model_calls = @ + Cardinality(ex),
                              !.cells = @ \cup {<<i, "KEYWORDS", KeywordsStr(rows[i].kws)>> :
                                                   i \in {j \in ex : rows[j].kws # <<>>}}],
              ret |-> [i \in 1..Len(rows) |-> JobRecord(rows[i], overwrite_keywords)] ]

\* generate_resume: the dry run, the missing client and the four steps of the
\* try block
generate_resume(self, w, master, rec) ==
    LET f == FileAt(w, master)
        out == OutputFilename(rec.company, rec.title)
        called == [w EXCEPT !.model_calls = @ + 1]
    IN IF self.dry_run THEN [w |-> w, ret |-> DryRunFilename(rec.title)]
       ELSE IF ~self.llm_client THEN [w |-> w, ret |-> ""]
       ELSE IF f.kind # "docx" THEN [w |-> w, ret |-> ""]
       ELSE IF docx_to_structured_txt(f.doc) = <<>> THEN [w |-> w, ret |-> ""]
       ELSE IF rec.fault \in {"rewrite", "build", "save_nofile"} THEN [w |-> called, ret |-> ""]
       ELSE IF rec.fault = "save_partial"
            THEN [w |-> [called EXCEPT !.files[out] = Partial], ret |-> ""]
       ELSE [ w |-> [called EXCEPT !.files[out] = DocxFile(BuildDocument(TailoredText))],
              ret |-> GenerateResult(TRUE, out) ]

\* Variant: the dry-run test of upload_to_drive is left out.
upload_to_drive_nodryrun(self, w, file_path, ok) ==
    IF ~self.drive THEN [w |-> w, ret |-> ""]
    ELSE IF FileAt(w, file_path).kind = "absent" \/ ~ok THEN [w |-> w, ret |-> ""]
    ELSE [w |-> [w EXCEPT !.uploads = @ \cup {file_path}], ret |-> DriveLink(file_path)]

\* upload_to_drive: ok is whether Drive accepts the upload
upload_to_drive(self, w, file_path, ok) ==
    IF self.dry_run THEN [w |-> w, ret |-> DryRunLink]
    ELSE IF ~self.drive THEN [w |-> w, ret |-> ""]
    ELSE IF FileAt(w, file_path).kind = "absent" \/ ~ok THEN [w |-> w, ret |-> ""]
    ELSE [w |-> [w EXCEPT !.uploads = @ \cup {file_path}], ret |-> DriveLink(file_path)]

\* update_resume_link_in_sheet: sheet_info is whether the record carries its
\* sheet, row and column; ok is whether update_cell succeeds
update_resume_link_in_sheet(self, w, row, sheet_info, resume_link, ok) ==
    IF self.dry_run THEN [w |-> w, ret |-> "True"]
    ELSE IF ~self.gc THEN [w |-> w, ret |-> "False"]
    ELSE IF ~sheet_info \/ ~ok THEN [w |-> w, ret |-> "False"]
    ELSE [w |-> [w EXCEPT !.cells = @ \cup {<<row, "RESUME_LINK", resume_link>>}], ret |-> "True"]

----------------------------------------------------------------------------
(* Session specification: a caller makes up to MaxCalls calls, in any order,
   on one ResumeTailor object *)

TailorInputs ==
    [ dry_run : BOOLEAN, env_dry_run : BOOLEAN,
      gc : BOOLEAN, llm_client : BOOLEAN, drive : BOOLEAN,
      master : {"master.docx"},
      master_file : {DocxFile(MasterTemplate), Absent},
      rows : SeqsUpTo({MkJob(TRUE, FALSE, <<>>, "none", TRUE, TRUE, FALSE, TRUE)}, 1) ]

TailorInit ==
    /\ tin \in TailorInputs
    /\ tself = ResumeTailor(tin.dry_run, tin.env_dry_run, tin.gc, tin.llm_client, tin.drive)
    /\ tw = World(tin.master, tin.master_file)
    /\ tret = [method |-> "none", value |-> ""]
    /\ tcalled = {}
    /\ tn = 0

Returned(method, r) ==
    /\ tw' = r.w
    /\ tret' = [method |-> method, value |-> r.ret]
    /\ tcalled' = tcalled \cup {method}
    /\ tn' = tn + 1
    /\ UNCHANGED <<tin, tself>>

CallProcessJobData ==
    /\ tn < MaxCalls
    /\ \E overwrite_keywords \in BOOLEAN :
          Returned("process_job_data", process_job_data(tself, tw, tin.rows, overwrite_keywords))
    /\ UNCHANGED <<codecVars, rewriteVars, anchorVars, paraVars, jobVars, locVars, batchVars, sanVars>>

CallGenerateResume ==
    /\ tn < MaxCalls
    /\ \E rec \in JobRecordVocab :
          Returned("generate_resume", generate_resume(tself, tw, tin.master, rec))
    /\ UNCHANGED <<codecVars, rewriteVars, anchorVars, paraVars, jobVars, locVars, batchVars, sanVars>>

UploadPaths ==
    {OutputFilename(c, t) : c \in JobCompanies, t \in JobTitles}
        \cup {DryRunFilename(t) : t \in JobTitles}

CallUploadToDrive ==
    /\ tn < MaxCalls
    /\ \E file_path \in UploadPaths, ok \in BOOLEAN :
          Returned("upload_to_drive", upload_to_drive(tself, tw, file_path, ok))
    /\ UNCHANGED <<codecVars, rewriteVars, anchorVars, paraVars, jobVars, locVars, batchVars, sanVars>>

ResumeLinks == {DryRunLink} \cup {DriveLink(p) : p \in UploadPaths}

CallUpdateResumeLink ==
    /\ tn < MaxCalls
    /\ \E sheet_info \in BOOLEAN, resume_link \in ResumeLinks, ok \in BOOLEAN :
          Returned("update_resume_link_in_sheet",
                   update_resume_link_in_sheet(tself, tw, 2, sheet_info, resume_link, ok))
    /\ UNCHANGED <<codecVars, rewriteVars, anchorVars, paraVars, jobVars, locVars, batchVars, sanVars>>

TailorNext ==
    \/ CallProcessJobData
    \/ CallGenerateResume
    \/ CallUploadToDrive
    \/ CallUpdateResumeLink

InitTailor == TailorInit /\ CodecIdle /\ RewriteIdle /\ AnchorIdle /\ ParaIdle /\ JobIdle /\ LocIdle /\ BatchIdle /\ SanIdle

SpecTailor == InitTailor /\ [][TailorNext]_vars

\* path ends in ".docx"
IsDocxPath(path) == Len(path) > 5 /\ SubSeq(path, Len(path) - 4, Len(path)) = ".docx"

\* link has the shape of a Drive file link
IsDriveLink(link) ==
    /\ Len(link) > 37
    /\ SubSeq(link, 1, 32) = "https://drive.google.com/file/d/"
    /\ SubSeq(link, Len(link) - 4, Len(link)) = "/view"

----------------------------------------------------------------------------
(* The batch loops: main of automated_resume_tailor.py and
   IntegratedApplicationTailor.process_applications.  CoverLetterTailor is an
   external collaborator: a record says whether its cover letter exists
   already (cover_link) and whether generating one succeeds (cover_ok). *)

Outcome(status, resume_path, drive_link, cover) ==
    [status |-> status, resume_path |-> resume_path, drive_link |-> drive_link, cover |-> cover]

\* if drive_link: update the sheet, count the resume, unlink the local file
RecordLink(self, w, resume_path, drive_link, rec, row, cover) ==
    LET s == update_resume_link_in_sheet(self, w, row, TRUE, drive_link, rec.update_ok)
    IN [w |-> [s.w EXCEPT !.files[resume_path] = Absent],
        out |-> Outcome(IF s.ret = "True" THEN "done" ELSE "update_failed",
                        resume_path, drive_link, cover)]

\* if resume_path: upload, update the sheet, unlink the local file
UploadAndRecord(self, g, rec, row, cover) ==
    LET u == upload_to_drive(self, g.w, g.ret, rec.upload_ok)
    IN IF u.ret = ""
       THEN [w |-> u.w, out |-> Outcome("upload_failed", g.ret, "", cover)]
       ELSE RecordLink(self, u.w, g.ret, u.ret, rec, row, cover)

\* Variant: the test of the existing resume link is left out.
MainGenerateStep_nolinktest(self, w, master, rec) ==
    IF ~rec.valid THEN [w |-> w, ret |-> "", status |-> "skipped", called |-> FALSE]
    ELSE LET g == generate_resume(self, w, master, rec)
         IN [w |-> g.w, ret |-> g.ret, called |-> TRUE,
             status |-> IF g.ret = "" THEN "conversion_failed" ELSE "generated"]

\* main up to "if resume_path": the skip tests and generate_resume
MainGenerateStep(self, w, master, rec) ==
    IF ~rec.valid \/ rec.link THEN [w |-> w, ret |-> "", status |-> "skipped", called |-> FALSE]
    ELSE LET g == generate_resume(self, w, master, rec)
         IN [w |-> g.w, ret |-> g.ret, called |-> TRUE,
             status |-> IF g.ret = "" THEN "conversion_failed" ELSE "generated"]

\* process_applications up to the uploads: the skip tests, generate_resume
\* unless the resume exists, and the cover letter
AppGenerateStep(self, w, master, rec) ==
    IF ~rec.valid \/ (rec.link /\ rec.cover_link)
    THEN [w |-> w, ret |-> "", status |-> "skipped", called |-> FALSE]
    ELSE IF rec.link THEN [w |-> w, ret |-> "", status |-> "done", called |-> FALSE]
    ELSE LET g == generate_resume(self, w, master, rec)
         IN [w |-> g.w, ret |-> g.ret, called |-> TRUE,
             status |-> IF g.ret = "" THEN "conversion_failed" ELSE "generated"]

GenerateStep(loop, self, w, master, rec) ==
    IF loop = "main" THEN MainGenerateStep(self, w, master, rec)
    ELSE AppGenerateStep(self, w, master, rec)

\* cover_letter_path is not empty
CoverGenerated(loop, rec, status) ==
    loop = "process_applications" /\ status \in {"done", "generated"}
        /\ ~rec.cover_link /\ rec.cover_ok

\* The body of "for record in job_records"
LoopBody(loop, self, w, master, rec, row) ==
    LET a == GenerateStep(loop, self, w, master, rec)
        cover == CoverGenerated(loop, rec, a.status)
    IN IF a.status = "generated" THEN UploadAndRecord(self, a, rec, row, cover)
       ELSE [w |-> a.w, out |-> Outcome(a.status, "", "", cover)]

BatchInputs ==
    [ loop : {"main", "process_applications"},
      records : SeqsUpTo(JobRecordVocab, MaxJobs),
      master : MasterPaths,
      dry_run : BOOLEAN,
      overwrite_keywords : BOOLEAN ]

BatchInit ==
    /\ bpc = "start"
    /\ bin \in BatchInputs
    /\ bself = ResumeTailor(bin.dry_run, FALSE, TRUE, TRUE, TRUE)
    /\ bi = 0
    /\ bw = World(bin.master, DocxFile(MasterTemplate))
    /\ bgen = ""
    /\ blink = ""
    /\ bout = <<>>
    /\ bjobs = <<>>
    /\ bcalls = {}

\* job_records = process_job_data(...); if not job_records: return
LoadJobRecords ==
    /\ bpc = "start"
    /\ \E r \in {process_job_data(bself, bw, bin.records, bin.overwrite_keywords)} :
          /\ bw' = r.w
          /\ bjobs' = r.ret
          /\ IF r.ret = <<>> THEN bpc' = "finished" /\ bi' = bi
                             ELSE bpc' = "loop" /\ bi' = 1
    /\ UNCHANGED <<bin, bself, bgen, blink, bout, bcalls>>
    /\ UNCHANGED <<codecVars, rewriteVars, anchorVars, paraVars, jobVars, locVars, tailorVars, sanVars>>

\* The first part of an iteration: a record that is skipped or whose
\* conversion failed is done with, a generated resume goes on to the upload
Generate(loop) ==
    /\ bpc = "loop" /\ bin.loop = loop /\ bi <= Len(bjobs)
    /\ \E rec \in {bjobs[bi]} :
       \E a \in {GenerateStep(loop, bself, bw, bin.master, rec)} :
          /\ bw' = a.w
          /\ bgen' = a.ret
          /\ bcalls' = IF a.called THEN bcalls \cup {<<bi, rec.KEYWORDS_RAW>>} ELSE bcalls
          /\ IF a.status = "generated"
             THEN bpc' = "upload" /\ UNCHANGED <<bi, bout>>
             ELSE /\ bout' = Append(bout, Outcome(a.status, "", "", CoverGenerated(loop, rec, a.status)))
                  /\ bi' = bi + 1 /\ bpc' = bpc
    /\ UNCHANGED <<bin, bself, blink, bjobs>>

\* The second part: the upload; without a link the record is done with
Upload(loop) ==
    /\ bpc = "upload" /\ bin.loop = loop
    /\ \E rec \in {bjobs[bi]} :
       \E u \in {upload_to_drive(bself, bw, bgen, rec.upload_ok)} :
          /\ bw' = u.w
          /\ IF u.ret = ""
             THEN /\ bout' = Append(bout, Outcome("upload_failed", bgen, "",
                                                   CoverGenerated(loop, rec, "generated")))
                  /\ bgen' = "" /\ bi' = bi + 1 /\ bpc' = "loop" /\ blink' = blink
             ELSE /\ blink' = u.ret /\ bpc' = "record"
                  /\ UNCHANGED <<bgen, bi, bout>>
    /\ UNCHANGED <<bin, bself, bjobs, bcalls>>

\* The third part: the sheet update with the link and the cleanup
Record(loop) ==
    /\ bpc = "record" /\ bin.loop = loop
    /\ \E rec \in {bjobs[bi]} :
       \E r \in {RecordLink(bself, bw, bgen, blink, rec, bi,
                             CoverGenerated(loop, rec, "generated"))} :
          bw' = r.w /\ bout' = Append(bout, r.out)
    /\ bgen' = "" /\ blink' = "" /\ bi' = bi + 1 /\ bpc' = "loop"
    /\ UNCHANGED <<bin, bself, bjobs, bcalls>>

MainGenerate ==
    /\ Generate("main")
    /\ UNCHANGED <<codecVars, rewriteVars, anchorVars, paraVars, jobVars, locVars, tailorVars, sanVars>>

MainUpload ==
    /\ Upload("main")
    /\ UNCHANGED <<codecVars, rewriteVars, anchorVars, paraVars, jobVars, locVars, tailorVars, sanVars>>

AppGenerate ==
    /\ Generate("process_applications")
    /\ UNCHANGED <<codecVars, rewriteVars, anchorVars, paraVars, jobVars, locVars, tailorVars, sanVars>>

AppUpload ==
    /\ Upload("process_applications")
    /\ UNCHANGED <<codecVars, rewriteVars, anchorVars, paraVars, jobVars, locVars, tailorVars, sanVars>>

MainRecord ==
    /\ Record("main")
    /\ UNCHANGED <<codecVars, rewriteVars, anchorVars, paraVars, jobVars, locVars, tailorVars, sanVars>>

AppRecord ==
    /\ Record("process_applications")
    /\ UNCHANGED <<codecVars, rewriteVars, anchorVars, paraVars, jobVars, locVars, tailorVars, sanVars>>

\* The loop is over
FinishBatch ==
    /\ bpc = "loop" /\ bi > Len(bjobs)
    /\ bpc' = "finished"
    /\ UNCHANGED <<bin, bself, bi, bw, bgen, blink, bout, bjobs, bcalls>>
    /\ UNCHANGED <<codecVars, rewriteVars, anchorVars, paraVars, jobVars, locVars, tailorVars, sanVars>>

BatchNext ==
    \/ LoadJobRecords
    \/ MainGenerate \/ MainUpload \/ MainRecord
    \/ AppGenerate \/ AppUpload \/ AppRecord
    \/ FinishBatch

InitBatch == BatchInit /\ CodecIdle /\ RewriteIdle /\ AnchorIdle /\ ParaIdle /\ JobIdle /\ LocIdle /\ TailorIdle /\ SanIdle

SpecBatch == InitBatch /\ [][BatchNext]_vars

\* The outcomes of a whole batch over records, in record order
RECURSIVE OutcomesFrom(_, _, _, _, _, _)
OutcomesFrom(loop, self, w, master, recs, i) ==
    IF i > Len(recs) THEN <<>>
    ELSE LET r == LoopBody(loop, self, w, master, recs[i], i)
         IN <<r.out>> \o OutcomesFrom(loop, self, r.w, master, recs, i + 1)

BatchOutcomes(loop, self, master, records) ==
    LET start == process_job_data(self, World(master, DocxFile(MasterTemplate)), records,
                                  bin.overwrite_keywords)
    IN OutcomesFrom(loop, self, start.w, master, start.ret, 1)

Without(records, j) == SubSeq(records, 1, j - 1) \o SubSeq(records, j + 1, Len(records))

\* The later records of the finished batch have the outcome they have in
\* the batch without the failed record j
IsolatedFrom(j) ==
    LET alt == BatchOutcomes(bin.loop, bself, bin.master, Without(bin.records, j))
    IN \A i \in (j + 1)..Len(bout) : alt[i - 1] = bout[i]

\* C20: failure isolation across jobs.  In the loops of main and
\* process_applications a record whose conversion failed (generate_resume
\* returned the empty path) does not end the batch, every later record is
\* processed, and each has the outcome it has in the batch without the failed
\* record.
C20_FailureIsolation ==
    (bpc = "finished" /\ bi > 0) =>
        /\ Len(bout) = Len(bin.records)
        /\ \A j \in 1..Len(bout) : bout[j].status = "conversion_failed" => IsolatedFrom(j)

\* The same with a template file that is not the output file of a job
C20_IsolationWithSeparateTemplate ==
    (bpc = "finished" /\ bi > 0 /\ bin.master = "master.docx") =>
        /\ Len(bout) = Len(bin.records)
        /\ \A j \in 1..Len(bout) : bout[j].status = "conversion_failed" => IsolatedFrom(j)

----------------------------------------------------------------------------
(* Claims on the anchors rewrite_section_from_lines selects and clones *)

\* A bulleted paragraph: numbering formatting, or a text that starts with
\* the bullet glyph or with a dash and a space
IsBulleted(p) ==
    \/ p.numPr # "none"
    \/ LET t == Strip(ParaText(p))
       IN t # <<>> /\ (t[1] = "BULLET" \/ (Len(t) >= 2 /\ t[1] = "-" /\ t[2] = " "))

OldBodyBulleted ==
    \E i \in 1..Len(rin.old_body) : IsBulleted(rin.before[rin.old_body[i]])

\* C21: default anchor selection.  In a call without mixed_mode the default
\* anchor is the bullet anchor when the old body holds a bulleted paragraph
\* and the bullet anchor is present; otherwise it is the body anchor if
\* present, else the bullet anchor if present, else the section header.
C21_DefaultAnchorSelection ==
    (AfterRewrite /\ ~rin.mixed_mode) =>
        rin.default_anchor =
            IF OldBodyBulleted /\ ranch["Bullet"] # 0 THEN ranch["Bullet"]
            ELSE IF ranch["Body"] # 0 THEN ranch["Body"]
            ELSE IF ranch["Bullet"] # 0 THEN ranch["Bullet"]
            ELSE rin.header

\* C21 witness: the old body is bulleted, and the call chose the bullet
\* anchor although a body anchor was present.
C21_Witness ==
    /\ AfterRewrite /\ ~rin.mixed_mode
    /\ OldBodyBulleted
    /\ ranch["Bullet"] # 0 /\ ranch["Body"] # 0 /\ ranch["Bullet"] # ranch["Body"]
    /\ rin.default_anchor = ranch["Bullet"]

\* C22: each paragraph rewrite_section_from_lines inserts is a clone of the
\* anchor selected for its line: it has the formatting signature of the
\* default anchor in uniform mode, and in mixed mode that of the body anchor
\* for a title line and of the bullet anchor for every other line, whatever
\* the formatting of the section header is.
C22_InsertedIsCloneOfSelectedAnchor ==
    AfterRewrite =>
        \A i \in 1..Len(rnew) :
            paragraph_xml_signature(rheap[rnew[i]])
                = paragraph_xml_signature(rin.before[SelectedAnchor(i)])

OpsOf(kind) == SelectSeq(rin.ops, LAMBDA o : o.op = kind)

\* The paragraphs of a document that are not in a given sequence
Outside(doc, ids) == SelectSeq(doc, LAMBDA x : \A i \in 1..Len(ids) : ids[i] # x)

\* C23: deletion-then-insertion ordering.  In a call of
\* rewrite_section_from_lines every paragraph of the old body is removed
\* before the first new paragraph is inserted; the first new paragraph is
\* inserted right after the section header and each further one right after
\* the previously inserted one; the paragraphs outside the rewritten section
\* keep their content and their relative order.
C23_DeleteThenInsert ==
    AfterRewrite =>
        /\ \A i, j \in 1..Len(rin.ops) :
              (rin.ops[i].op = "insert" /\ rin.ops[j].op = "delete") => j < i
        /\ [i \in 1..Len(OpsOf("delete")) |-> OpsOf("delete")[i].id] = rin.old_body
        /\ \A i \in 1..Len(rin.old_body) : \A k \in 1..Len(rdoc) : rdoc[k] # rin.old_body[i]
        /\ [i \in 1..Len(OpsOf("insert")) |-> OpsOf("insert")[i].id] = rnew
        /\ \A i \in 1..Len(rnew) :
              /\ OpsOf("insert")[i].ref = (IF i = 1 THEN rin.header ELSE rnew[i - 1])
              /\ rdoc[IndexOf(rdoc, rin.header) + i] = rnew[i]
        /\ Outside(rdoc, rnew) = Outside(rin.doc, rin.old_body)
        /\ \A k \in 1..Len(rdoc) :
              (\A i \in 1..Len(rnew) : rnew[i] # rdoc[k]) => rheap[rdoc[k]] = rin.before[rdoc[k]]

\* C23 witness: a call removed an old body and inserted two paragraphs between
\* the header and the header of the following section.
C23_Witness ==
    /\ AfterRewrite
    /\ Len(rin.old_body) >= 1 /\ Len(rnew) = 2
    /\ rin.follower # 0
    /\ Len(OpsOf("delete")) >= 1 /\ Len(OpsOf("insert")) = 2
    /\ rdoc[IndexOf(rdoc, rin.header) + 2] = rnew[2]
    /\ rdoc[IndexOf(rdoc, rin.header) + 3] = rin.follower

----------------------------------------------------------------------------
(* Line normalization of rewrite_section_from_lines on its own: the lines
   argument is normalized, and the normalized lines are normalized again. *)

SanTokens == {"BULLET", "-", "*", " ", "\t", "a"}

SanLineVocab ==
    { <<" ", "-", " ", "a", " ", "\t", "a", " ">>,
      <<"\t", "*", " ">>,
      <<"a", "-", "a">> }

SanInputs ==
    {<<l>> : l \in SeqsUpTo(SanTokens, MaxLineToks)} \cup SeqsUpTo(SanLineVocab, MaxSanLines)

SanInit ==
    /\ spc = "ready"
    /\ sin \in SanInputs
    /\ sout = <<>>
    /\ sagain = <<>>

\* clean_lines is computed from lines
Normalize ==
    /\ spc = "ready"
    /\ sout' = CleanLines(sin)
    /\ spc' = "normalized"
    /\ UNCHANGED <<sin, sagain>>
    /\ UNCHANGED <<codecVars, rewriteVars, anchorVars, paraVars, jobVars, locVars, tailorVars, batchVars>>

\* the normalized lines are passed to the rewriter once more
NormalizeAgain ==
    /\ spc = "normalized"
    /\ sagain' = CleanLines(sout)
    /\ spc' = "again"
    /\ UNCHANGED <<sin, sout>>
    /\ UNCHANGED <<codecVars, rewriteVars, anchorVars, paraVars, jobVars, locVars, tailorVars, batchVars>>

SanNext == Normalize \/ NormalizeAgain

InitSanitize == SanInit /\ CodecIdle /\ RewriteIdle /\ AnchorIdle /\ ParaIdle /\ JobIdle /\ LocIdle /\ TailorIdle /\ BatchIdle

SpecSanitize == InitSanitize /\ [][SanNext]_vars

IsMarkerOrSpace(t) == IsSpace(t) \/ t \in {"BULLET", "-", "*", "**"}

\* The words of a line from its first token that is neither whitespace nor
\* a leading marker
ContentWords(l) ==
    LET from == {i \in 1..Len(l) : ~IsMarkerOrSpace(l[i])}
    IN IF from = {} THEN <<>>
       ELSE SelectSeq(SubSeq(l, CHOOSE i \in from : \A j \in from : i <= j, Len(l)),
                      LAMBDA t : ~IsSpace(t))

IsNormalized(l) ==
    /\ l # <<>>
    /\ ~IsMarkerOrSpace(l[1])
    /\ ~IsSpace(l[Len(l)])
    /\ \A i \in 1..(Len(l) - 1) : ~(IsSpace(l[i]) /\ IsSpace(l[i + 1]))

\* C24: line normalization.  Every line kept by the normalization of
\* rewrite_section_from_lines is non-empty, has no whitespace at either end,
\* does not start with a bullet glyph, dash, asterisk or whitespace, and
\* holds no run of two or more whitespace characters; the lines that become
\* empty are discarded and the kept ones keep the input order and their
\* words; normalizing a normalized line returns it unchanged.
C24_LineNormalization ==
    (spc \in {"normalized", "again"}) =>
        /\ \A i \in 1..Len(sout) : IsNormalized(sout[i])
        /\ [i \in 1..Len(sout) |-> SelectSeq(sout[i], LAMBDA t : ~IsSpace(t))]
              = SelectSeq([i \in 1..Len(sin) |-> ContentWords(sin[i])], LAMBDA w : w # <<>>)
        /\ spc = "again" => sagain = sout

\* C24 witness: of two lines the one made of markers and whitespace was
\* discarded, the other lost its dash and its whitespace run, and a second
\* normalization changed nothing.
C24_Witness ==
    /\ spc = "again"
    /\ sin = << <<"\t", "*", " ">>, <<" ", "-", " ", "a", " ", "\t", "a", " ">> >>
    /\ sout = << <<"a", " ", "a">> >>
    /\ sagain = sout

----------------------------------------------------------------------------
(* Claims on the mixed-mode verification of rewrite_section_from_lines *)

IsTitleText(l) ==
    /\ \E i \in 1..(Len(l) - 2) : l[i] = " " /\ l[i + 1] = "|" /\ l[i + 2] = " "
    /\ ~(l # <<>> /\ l[1] = "1.")

\* C25: verification compares against the clone-time anchor.  In a strict
\* mixed-mode call, for every inserted paragraph the target signature the
\* verification chooses from the paragraph's rendered text is the signature
\* of the anchor that was selected for its line in the insertion loop, and
\* the rendered text is classified as its line was.
C25_VerifyAgainstCloneTimeAnchor ==
    (AfterRewrite /\ rin.mixed_mode /\ rin.strict_verify) =>
        /\ Len(rin.target_sig) = Len(rnew) /\ Len(rin.anchor) = Len(rnew)
        /\ \A i \in 1..Len(rnew) :
              /\ rin.target_sig[i] = paragraph_xml_signature(rin.before[rin.anchor[i]])
              /\ IsTitleText(ParaText(rheap[rnew[i]])) <=> IsTitleText(CleanLines(rin.lines)[i])

\* C25 witness: a strict mixed-mode call inserted a title line and a
\* numbered line that holds the delimiter, selected two anchors of different
\* signatures for them, and verified each against its own.
C25_Witness ==
    /\ AfterRewrite /\ rin.mixed_mode /\ rin.strict_verify
    /\ Len(rnew) = 2
    /\ IsTitleText(ParaText(rheap[rnew[1]])) # IsTitleText(ParaText(rheap[rnew[2]]))
    /\ rin.anchor[1] # rin.anchor[2]
    /\ rin.target_sig[1] # rin.target_sig[2]

----------------------------------------------------------------------------
(* Claims on _replace_section_body *)

AfterReplaceBody == rpc = "done" /\ rin.op = "replace_body"

Min(a, b) == IF a <= b THEN a ELSE b

\* The statement of C26 for a call with M template paragraphs and N lines
NeverDeletes ==
    LET M == Len(rin.old_body)
        N == Len(rin.lines)
        last == IndexOf(rdoc, rin.old_body[M])
    IN /\ Outside(rdoc, rnew) = rin.doc
       /\ \A i \in 1..Min(M, N) : ParaText(rheap[rin.old_body[i]]) = rin.lines[i]
       /\ (N > M /\ M > 0) =>
             /\ Len(rnew) = N - M
             /\ \A j \in 1..Len(rnew) :
                   /\ rdoc[last + j] = rnew[j]
                   /\ ParaText(rheap[rnew[j]]) = rin.lines[M + j]
       /\ M > N => \A i \in (N + 1)..M :
                      /\ \E k \in 1..Len(rdoc) : rdoc[k] = rin.old_body[i]
                      /\ ParaText(rheap[rin.old_body[i]]) = <<>>

\* C26: _replace_section_body never deletes a paragraph.  For a section with
\* M template paragraphs and N new lines no paragraph leaves the document;
\* the first min(M, N) template paragraphs get the new lines as text in
\* order; with N > M > 0 exactly N - M paragraphs are cloned and inserted
\* after the last paragraph of the section, in line order; with M > N the
\* M - N excess paragraphs stay in the document with empty text.
C26_ReplaceBodyNeverDeletes ==
    AfterReplaceBody => NeverDeletes

\* The same statement for the calls in which every line beyond the template
\* paragraphs has an anchor to be cloned from
C26_NeverDeletesWithAnchors ==
    (AfterReplaceBody /\ LinesWithoutAnchor = {}) => NeverDeletes

----------------------------------------------------------------------------
(* Claims on the per-job workflow of main *)

MainLoop == bin.loop = "main"

LinkCells(w) == {c \in w.cells : c[2] = "RESUME_LINK"}

ResumeOf(rec) == OutputFilename(rec.company, rec.title)

\* What holds of the sheet and of generated_files in every state of main
WorkflowState ==
    /\ \A c \in LinkCells(bw) :
          LET rec == bin.records[c[1]]
          IN /\ rec.valid /\ ~rec.link
             /\ c[3] # "" /\ c[3] = DriveLink(ResumeOf(rec))
             /\ ResumeOf(rec) \in bw.uploads
    /\ \A j \in 1..Len(bout) :
          bout[j].status = "done" =>
              /\ bout[j].resume_path = ResumeOf(bin.records[j])
              /\ bout[j].drive_link # ""
              /\ bout[j].resume_path \in bw.uploads
              /\ <<j, "RESUME_LINK", bout[j].drive_link>> \in bw.cells

\* What holds of every step of main
WorkflowStep ==
    /\ \A c \in LinkCells(bw') \ LinkCells(bw) :
          /\ bpc = "record"
          /\ bgen = ResumeOf(bin.records[bi]) /\ FileAt(bw, bgen).kind = "docx"
          /\ bgen \in bw.uploads
          /\ blink # "" /\ c = <<bi, "RESUME_LINK", blink>>
    /\ (bpc = "loop" /\ bi <= Len(bin.records)
           /\ (~bin.records[bi].valid \/ bin.records[bi].link)) =>
          /\ bw' = bw /\ bpc' = "loop"
          /\ bout' = Append(bout, Outcome("skipped", "", "", FALSE))

\* C27: per-job workflow ordering in main.  The resume-link cell of a record
\* is written only after a resume file was generated for the record and its
\* upload returned a non-empty link, and the value written is that link; a
\* record that has a resume link already, or lacks a title or description,
\* causes no generation, no upload and no write of the cell; a job is
\* counted in generated_files only if generation, upload and sheet update
\* all succeeded.
C27_PerJobWorkflowOrdering ==
    /\ [](MainLoop => WorkflowState)
    /\ [][MainLoop => WorkflowStep]_vars

\* C27 witness: main finished a batch of two records: the first was
\* generated, uploaded and recorded in the sheet, the second had a resume
\* link and was skipped.
C27_Witness ==
    /\ bpc = "finished" /\ MainLoop /\ Len(bout) = 2
    /\ bout[1].status = "done" /\ bout[2].status = "skipped"
    /\ bin.records[2].valid /\ bin.records[2].link
    /\ LinkCells(bw) = {<<1, "RESUME_LINK", bout[1].drive_link>>}

----------------------------------------------------------------------------
(* Claims on the markers of the encoder and the buckets of the parser *)

MarkerLinesOf(txt, k) == {j \in 1..Len(txt) : txt[j] = <<section_markers[k]>>}

\* The first paragraph of the document that is the header of section k
FirstHeaderOf(doc, k) ==
    LET hs == {i \in 1..Len(doc) :
                 IsRecognizedHeader(doc[i]) /\ _map_to_section_key(Strip(ParaText(doc[i]))) = k}
    IN IF hs = {} THEN 0 ELSE CHOOSE i \in hs : \A h \in hs : i <= h

\* C28: the encoder emits each section marker at most once.  For a document
\* none of whose paragraphs is itself a marker line, the text returned by
\* docx_to_structured_txt holds the marker of a section at most once, and
\* then right before the text of the first paragraph that is the header of
\* the section; a later paragraph whose text holds a section keyword adds
\* no marker.
C28_MarkerEmittedOnce ==
    (cpc = "encoded" /\ \A i \in 1..Len(ctmpl) : ~IsMarkerValue(Strip(ParaText(ctmpl[i])))) =>
        \A k \in SectionKeys :
            /\ Cardinality(MarkerLinesOf(ctxt, k)) <= 1
            /\ \A j \in MarkerLinesOf(ctxt, k) :
                  k # "HEADER" =>
                      /\ FirstHeaderOf(ctmpl, k) # 0
                      /\ j < Len(ctxt)
                      /\ ctxt[j + 1] = Strip(ParaText(ctmpl[FirstHeaderOf(ctmpl, k)]))

\* Indices of the content lines of txt whose current bucket is k
LinesOfBucket(txt, k) ==
    {j \in 1..Len(txt) : IsContentLine(txt[j]) /\ CurrentBucket(txt, j) = k}

\* C29: the parser loses no content.  Every non-empty line that is not a
\* recognized marker is in the result of _parse_ai_structured_txt exactly
\* once, in the bucket of the nearest recognized marker before it (HEADER
\* when there is none) and in input order within the bucket, also when a
\* marker occurs more than once.
C29_ParserLosesNoContent ==
    cpc = "parsed" =>
        \A k \in SectionKeys : Get(csec, k) = LinesAt(ctxt, LinesOfBucket(ctxt, k))

----------------------------------------------------------------------------
(* Claims on the keywords handed from process_job_data to generate_resume *)

\* C30: keywords reach the generator.  For every job record returned by
\* process_job_data whose KEYWORDS value is not empty, extracted in this run
\* or reused from the sheet, the keyword list passed to generate_resume for
\* the record is not empty and is the list the KEYWORDS value was written
\* from.
C30_KeywordsReachGenerator ==
    \A c \in bcalls :
        bjobs[c[1]].KEYWORDS # "" =>
            /\ c[2] # <<>>
            /\ KeywordsStr(c[2]) = bjobs[c[1]].KEYWORDS

\* The same for the records whose keywords were extracted in this run
C30_ExtractedKeywordsReachGenerator ==
    \A c \in bcalls :
        (bjobs[c[1]].KEYWORDS # "" /\ (bin.records[c[1]].keywords = "" \/ bin.overwrite_keywords)) =>
            /\ c[2] # <<>>
            /\ KeywordsStr(c[2]) = bjobs[c[1]].KEYWORDS

====
